---------------------------- MODULE Spec2Model ----------------------------
(***************************************************************************)
(* A model of the osquery node protocol of zentral                         *)
(* (zentral/contrib/osquery/views/api.py and models.py): enrollment, the   *)
(* distributed query selector, file carving and log ingestion.             *)
(*                                                                         *)
(* Every request runs in one database transaction (the views rely on it:   *)
(* select_for_update at api.py:234 and transaction.on_commit at api.py:276 *)
(* need the per-request transaction).  The database is PostgreSQL          *)
(* (ArrayField, JSONField) at its default isolation level: a statement     *)
(* sees the rows committed before it starts plus the rows of its own       *)
(* transaction, and a violated unique constraint fails the request, which  *)
(* rolls back everything it wrote.                                         *)
(*                                                                         *)
(* Conventions.  A nullable column or optional key is a set with at most   *)
(* one element ({} is null / missing).  A version string is the sequence   *)
(* of its dot separated parts, each part a string; <<>> stands for None.   *)
(***************************************************************************)
EXTENDS Integers, Sequences, FiniteSets, TLC

VARIABLES
    \* ---- enrollment
    enrolled_machines,   \* rows of EnrolledMachine
    machine_tags,        \* rows of MachineTag: <<serial_number, tag>>
    machine_pk_seq,      \* last primary key given to an EnrolledMachine
    node_key_seq,        \* number of node keys drawn so far
    issued_keys,         \* history: serial -> node keys returned by enroll, in order
    enroll_response,     \* the last answer of the enroll endpoint
    enrollment_event,    \* the last event handed to post_enrollment_event
    \* ---- distributed queries
    distributed_queries, \* rows of DistributedQuery: pk -> row
    now,                 \* timezone.now()
    dqms,                \* committed rows of DistributedQueryMachine
    dqm_pk_seq,          \* last primary key given to a DistributedQueryMachine
    poll,                \* the distributed_read requests: in flight, or answered
    returned_count,      \* history: <<serial, dq>> -> number of answers holding it
    dq_results,          \* rows of DistributedQueryResult
    write_out,           \* the last distributed_write request and its answer
    write_loop,          \* the result insertion loop of a distributed_write in progress
    \* ---- file carving
    sessions,            \* committed rows of FileCarvingSession
    blocks,              \* committed rows of FileCarvingBlock
    session_lock,        \* session id -> request holding its row lock ("": free)
    carve,               \* the carve_continue requests: in flight, or answered
    dispatched,          \* session id -> archive builds dispatched
    finished_reports,    \* history: session id -> calls that saw session_finished
    start_out,           \* the last carve_start request and its answer
    \* ---- log ingestion
    log_batch,           \* the records an agent has buffered for its next log request
    log_out              \* the last log request and its outcome

enrollVars == <<enrolled_machines, machine_tags, machine_pk_seq, node_key_seq,
                issued_keys, enroll_response, enrollment_event>>
writeVars == <<dq_results, write_out, write_loop>>
distVars == <<distributed_queries, now, dqms, dqm_pk_seq, poll, returned_count, writeVars>>
carveVars == <<sessions, blocks, session_lock, carve, dispatched, finished_reports,
              start_out>>
logVars == <<log_batch, log_out>>
vars == <<enrollVars, distVars, carveVars, logVars>>

---------------------------------------------------------------------------
(* Bounds of the model *)

MaxEnrolls == 3

---------------------------------------------------------------------------
(* Shared value domains *)

SerialNumbers == {"SN1", "SN2"}
Enrollments == {"E1", "E2"}
Tags == {"T1"}

\* None and the empty string, the two falsy version values.
NoVersion == <<>>
Truthy(v) == v # <<>> /\ v # <<"">>

\* Platform.value[1] of the five members of the enum.
PlatformBit(p) ==
    CASE p = "darwin" -> 16
      [] p = "freebsd" -> 32
      [] p = "linux" -> 8
      [] p = "posix" -> 1
      [] p = "windows" -> 2
PlatformNames == {"darwin", "freebsd", "linux", "posix", "windows"}

\* bit & mask, for a single-bit value bit
BitAnd(bit, mask) == IF (mask \div bit) % 2 = 1 THEN bit ELSE 0

platforms_from_mask(mask) == {p \in PlatformNames : BitAnd(PlatformBit(p), mask) # 0}

\* The tags of enrollment.secret.tags.all()
EnrollmentSecretTags(e) == IF e = "E1" THEN {"T1"} ELSE {}

---------------------------------------------------------------------------
(* Enrollment: EnrollView *)

\* BaseNodeView.get_node_key: the value of a request that carries no node_key
NoNodeKey == 0

\* BaseNodeView.authenticate with a key every row holds (a lenient variant)
AuthenticateLenient(node_key) ==
    IF \E m \in enrolled_machines : m.node_key = node_key
    THEN {m \in enrolled_machines : m.node_key = node_key}
    ELSE enrolled_machines

\* BaseNodeView.authenticate: the rows a node key resolves to (none: PermissionDenied)
Authenticate(node_key) == {m \in enrolled_machines : m.node_key = node_key}

\* The status of a request that fails BaseNodeView.authenticate: SuspiciousOperation
\* ("Missing node_key", 400) from get_node_key, or PermissionDenied ("Wrong node_key", 403)
AuthStatus(node_key) == IF node_key = NoNodeKey THEN 400 ELSE 403

\* EnrolledMachine.objects.update_or_create(enrollment, serial_number, defaults):
\* the row after the call.  plat and ver are the optional defaults.
UpdateOrCreateGetOnly(e, s, key, plat, ver) ==
    LET found == {m \in enrolled_machines : m.enrollment = e /\ m.serial_number = s}
    IN  IF found # {}
        THEN CHOOSE m \in found : TRUE
        ELSE [pk |-> machine_pk_seq + 1, enrollment |-> e, serial_number |-> s,
              node_key |-> key,
              platform_mask |-> IF plat = {} THEN 0 ELSE CHOOSE x \in plat : TRUE,
              osquery_version |-> IF ver = {} THEN NoVersion ELSE CHOOSE x \in ver : TRUE]

UpdateOrCreate(e, s, key, plat, ver) ==
    LET found == {m \in enrolled_machines : m.enrollment = e /\ m.serial_number = s}
    IN  IF found # {}
        THEN LET m == CHOOSE x \in found : TRUE
             IN  [m EXCEPT !.node_key = key,
                           !.platform_mask = IF plat = {} THEN @ ELSE CHOOSE x \in plat : TRUE,
                           !.osquery_version = IF ver = {} THEN @ ELSE CHOOSE x \in ver : TRUE]
        ELSE [pk |-> machine_pk_seq + 1, enrollment |-> e, serial_number |-> s,
              node_key |-> key,
              platform_mask |-> IF plat = {} THEN 0 ELSE CHOOSE x \in plat : TRUE,
              osquery_version |-> IF ver = {} THEN NoVersion ELSE CHOOSE x \in ver : TRUE]

\* The rows EnrollView.do_post deletes: the other rows of the serial number
OtherEnrolledMachinesNone(em) == {}

OtherEnrolledMachines(em) ==
    {o \in enrolled_machines : o.pk # em.pk /\ o.serial_number = em.serial_number}

\* A request without serial number (400) or with a wrong secret (403)
EnrollRejected(secret, s) ==
    /\ s = "" \/ secret \notin Enrollments
    /\ enroll_response' = [status |-> IF s = "" THEN 400 ELSE 403, node_key |-> 0]
    /\ UNCHANGED <<enrolled_machines, machine_tags, machine_pk_seq, node_key_seq,
                   issued_keys, enrollment_event>>
    /\ UNCHANGED <<distVars, carveVars, logVars>>

\* EnrollView.post for a verified request.  get_random_string(32) is a node key
\* no earlier call has drawn.
Enroll(secret, s, plat, ver) ==
    /\ s # ""
    /\ secret \in Enrollments
    /\ node_key_seq < MaxEnrolls
    /\ LET key == node_key_seq + 1
           em == UpdateOrCreate(secret, s, key, plat, ver)
           kept == {m \in enrolled_machines : m.pk # em.pk} \cup {em}
           others == OtherEnrolledMachines(em)
       IN  /\ node_key_seq' = key
           /\ machine_pk_seq' = IF em.pk > machine_pk_seq THEN em.pk ELSE machine_pk_seq
           /\ enrolled_machines' = kept \ others
           /\ machine_tags' = machine_tags \cup {<<s, t>> : t \in EnrollmentSecretTags(secret)}
           /\ enrollment_event' = [serial_number |-> s,
                                   action |-> IF others # {} THEN "re-enrollment"
                                                             ELSE "enrollment"]
           /\ issued_keys' = [issued_keys EXCEPT ![s] = Append(@, em.node_key)]
           /\ enroll_response' = [status |-> 200, node_key |-> em.node_key]
    /\ UNCHANGED <<distVars, carveVars, logVars>>

---------------------------------------------------------------------------
(* Distributed queries: DistributedQueryManager and DistributedReadView *)

batch_size == 10

\* Bounds: the number of DistributedQuery rows and the last instant of the clock
NumQueries == 11
MaxTime == 1

Pollers == {"p1", "p2"}
QueryIds == 1..NumQueries

\* int(v) of one part of a version string (ValueError when it is no integer)
IsIntString(c) == c \in {"0", "1", "4", "5", "9"}
IntOf(c) ==
    CASE c = "0" -> 0
      [] c = "1" -> 1
      [] c = "4" -> 4
      [] c = "5" -> 5
      [] c = "9" -> 9

\* tuple(int(v) for v in version.split(".")) raises ValueError on such a string
VersionParses(v) == ~Truthy(v) \/ \A i \in 1..Len(v) : IsIntString(v[i])

\* EnrolledMachine.osquery_version_tuple, for a version that parses
osquery_version_tuple(v) ==
    IF Truthy(v) THEN [i \in 1..Len(v) |-> IntOf(v[i])] ELSE <<0, 0, 0>>

\* DistributedQuery.minimum_osquery_version_tuple
minimum_osquery_version_tuple(v) ==
    IF Truthy(v) THEN [i \in 1..Len(v) |-> IntOf(v[i])] ELSE <<0, 0, 0>>

\* Python's a > b on tuples of integers
RECURSIVE TupleGT(_, _)
TupleGT(a, b) ==
    IF a = <<>> THEN FALSE
    ELSE IF b = <<>> THEN TRUE
    ELSE IF Head(a) # Head(b) THEN Head(a) > Head(b)
    ELSE TupleGT(Tail(a), Tail(b))

\* zentral.utils.text.shard(serial_number, pk): a fixed value in 1..100 for each pair
SerialOrdinal(s) == IF s = "SN1" THEN 1 ELSE 2
shard(s, pk) == ((SerialOrdinal(s) * 37 + pk * 53) % 100) + 1

\* MetaMachine(serial_number).tags
MachineTags(s) == {t \in Tags : <<s, t>> \in machine_tags}

\* DistributedQueryManager.active(), on one row
active(dq, t) ==
    /\ dq.valid_until = {} \/ \E u \in dq.valid_until : u >= t
    /\ dq.valid_from <= t

\* The queryset with a tag filter that has no tags__isnull branch
QuerySetTaggedOnly(em, tags, t, rows) ==
    {pk \in QueryIds :
        LET dq == distributed_queries[pk]
        IN  /\ active(dq, t)
            /\ dq.platforms = {} \/ dq.platforms \cap platforms_from_mask(em.platform_mask) # {}
            /\ dq.serial_numbers = {} \/ em.serial_number \in dq.serial_numbers
            /\ dq.tags \cap tags # {}
            /\ ~\E r \in rows : r.distributed_query = pk
                                /\ r.serial_number = em.serial_number}

\* The queryset of iter_queries_for_enrolled_machine: the pks, before the ordering
QuerySet(em, tags, t, rows) ==
    {pk \in QueryIds :
        LET dq == distributed_queries[pk]
        IN  /\ active(dq, t)
            /\ dq.platforms = {} \/ dq.platforms \cap platforms_from_mask(em.platform_mask) # {}
            /\ dq.serial_numbers = {} \/ em.serial_number \in dq.serial_numbers
            /\ dq.tags = {} \/ dq.tags \cap tags # {}
            /\ ~\E r \in rows : r.distributed_query = pk
                                /\ r.serial_number = em.serial_number}

\* order_by("pk"): a set of pks as an ascending sequence
RECURSIVE OrderByPk(_)
OrderByPk(S) ==
    IF S = {} THEN <<>>
    ELSE LET m == CHOOSE x \in S : \A y \in S : x <= y
         IN  <<m>> \o OrderByPk(S \ {m})

\* The test of the loop body of iter_queries_for_enrolled_machine: dq is yielded
YieldsNoVersionGate(dq, em) ==
    dq.shard = 100 \/ shard(em.serial_number, dq.pk) <= dq.shard

YieldsNoShard(dq, em) ==
    ~TupleGT(minimum_osquery_version_tuple(dq.minimum_osquery_version),
             osquery_version_tuple(em.osquery_version))

Yields(dq, em) ==
    /\ ~TupleGT(minimum_osquery_version_tuple(dq.minimum_osquery_version),
                osquery_version_tuple(em.osquery_version))
    /\ dq.shard = 100 \/ shard(em.serial_number, dq.pk) <= dq.shard

\* islice(generator, n): the first n pks the generator yields from the ordered rows
RECURSIVE ISliceOneMore(_, _, _)
ISliceOneMore(qs, em, n) ==
    IF n < 0 \/ qs = <<>> THEN <<>>
    ELSE IF Yields(distributed_queries[Head(qs)], em)
         THEN <<Head(qs)>> \o ISliceOneMore(Tail(qs), em, n - 1)
         ELSE ISliceOneMore(Tail(qs), em, n)

RECURSIVE ISlice(_, _, _)
ISlice(qs, em, n) ==
    IF n = 0 \/ qs = <<>> THEN <<>>
    ELSE IF Yields(distributed_queries[Head(qs)], em)
         THEN <<Head(qs)>> \o ISlice(Tail(qs), em, n - 1)
         ELSE ISlice(Tail(qs), em, n)

\* The first evaluation of enrolled_machine.osquery_version_tuple raises ValueError:
\* the queryset holds a row and the stored version does not parse
SelectRaises(em, qs) == qs # <<>> /\ ~VersionParses(em.osquery_version)

\* bulk_create fails on unique_together (distributed_query, serial_number)
UniqueViolationNever(dqm_list, s) == FALSE

UniqueViolation(dqm_list, s) ==
    \E i \in 1..Len(dqm_list) : \E r \in dqms :
        r.distributed_query = dqm_list[i] /\ r.serial_number = s

\* A request slot: pc is "idle" (nothing sent yet), "selected" (the loop is over,
\* bulk_create is next) or "done" (answered: status and queries are the answer).
\* sel_now and sel_dqms are the clock and the committed rows the selection read.
IdlePoll == [pc |-> "idle", serial_number |-> "", dqm_list |-> <<>>,
             sel_now |-> 0, sel_dqms |-> {}, status |-> 0, queries |-> {}]

Failed(code) == [IdlePoll EXCEPT !.pc = "done", !.status = code]

\* A distributed_read with a node key no row holds: PermissionDenied
ReadRejected(p, key) ==
    /\ poll[p].pc # "selected"
    /\ Authenticate(key) = {}
    /\ poll' = [poll EXCEPT ![p] = Failed(AuthStatus(key))]
    /\ UNCHANGED <<distributed_queries, now, dqms, dqm_pk_seq, returned_count>>
    /\ UNCHANGED <<writeVars, enrollVars, carveVars, logVars>>

\* DistributedReadView.do_node_post up to the end of the islice loop
ReadSelect(p, key) ==
    /\ poll[p].pc # "selected"
    /\ Authenticate(key) # {}
    /\ LET em == CHOOSE m \in Authenticate(key) : TRUE
           qs == OrderByPk(QuerySet(em, MachineTags(em.serial_number), now, dqms))
       IN  poll' = [poll EXCEPT ![p] =
                      IF SelectRaises(em, qs)
                      THEN [Failed(500) EXCEPT !.serial_number = em.serial_number]
                      ELSE [IdlePoll EXCEPT !.pc = "selected",
                                            !.serial_number = em.serial_number,
                                            !.dqm_list = ISlice(qs, em, batch_size),
                                            !.sel_now = now, !.sel_dqms = dqms]]
    /\ UNCHANGED <<distributed_queries, now, dqms, dqm_pk_seq, returned_count>>
    /\ UNCHANGED <<writeVars, enrollVars, carveVars, logVars>>

\* bulk_create(dqm_list): the rows of the list, with the pks the insert gives them
BulkCreate(l, s) ==
    {[pk |-> dqm_pk_seq + i, distributed_query |-> l[i], serial_number |-> s,
      status |-> {}, error_message |-> {}] : i \in 1..Len(l)}

\* queries[str(dqm.pk)] = dqm.distributed_query.sql, for the rows created
QueriesByQueryPk(created) ==
    {[id |-> r.distributed_query, dq |-> r.distributed_query,
      sql |-> distributed_queries[r.distributed_query].sql] : r \in created}

Queries(created) ==
    {[id |-> r.pk, dq |-> r.distributed_query,
      sql |-> distributed_queries[r.distributed_query].sql] : r \in created}

\* The delivery records saved one by one outside a transaction: a failing request
\* keeps the rows it inserted before the failure
ReadCreateRowByRow(p) ==
    /\ poll[p].pc = "selected"
    /\ LET s == poll[p].serial_number
           l == poll[p].dqm_list
           Fresh(q) == ~\E r \in dqms : r.distributed_query = q /\ r.serial_number = s
       IN  IF UniqueViolation(l, s)
           THEN /\ poll' = [poll EXCEPT ![p] = Failed(500)]
                /\ dqms' = dqms \cup BulkCreate(SelectSeq(l, Fresh), s)
                /\ dqm_pk_seq' = dqm_pk_seq + Len(SelectSeq(l, Fresh))
                /\ UNCHANGED returned_count
           ELSE LET created == BulkCreate(l, s)
                IN  /\ dqms' = dqms \cup created
                    /\ dqm_pk_seq' = dqm_pk_seq + Len(l)
                    /\ poll' = [poll EXCEPT ![p] =
                          [@ EXCEPT !.pc = "done", !.status = 200,
                                    !.queries = Queries(created)]]
                    /\ returned_count' =
                          [k \in DOMAIN returned_count |->
                              IF k[1] = s /\ \E i \in 1..Len(l) : l[i] = k[2]
                              THEN returned_count[k] + 1 ELSE returned_count[k]]
    /\ UNCHANGED <<distributed_queries, now>>
    /\ UNCHANGED <<writeVars, enrollVars, carveVars, logVars>>

\* bulk_create, the commit of the request and the answer
ReadCreate(p) ==
    /\ poll[p].pc = "selected"
    /\ LET s == poll[p].serial_number
           l == poll[p].dqm_list
       IN  IF UniqueViolation(l, s)
           THEN /\ poll' = [poll EXCEPT ![p] = Failed(500)]
                /\ UNCHANGED <<dqms, dqm_pk_seq, returned_count>>
           ELSE LET created == BulkCreate(l, s)
                IN  /\ dqms' = dqms \cup created
                    /\ dqm_pk_seq' = dqm_pk_seq + Len(l)
                    /\ poll' = [poll EXCEPT ![p] =
                          [@ EXCEPT !.pc = "done", !.status = 200,
                                    !.queries = Queries(created)]]
                    /\ returned_count' =
                          [k \in DOMAIN returned_count |->
                              IF k[1] = s /\ \E i \in 1..Len(l) : l[i] = k[2]
                              THEN returned_count[k] + 1 ELSE returned_count[k]]
    /\ UNCHANGED <<distributed_queries, now>>
    /\ UNCHANGED <<writeVars, enrollVars, carveVars, logVars>>

\* The clock
Tick ==
    /\ now < MaxTime
    /\ now' = now + 1
    /\ UNCHANGED <<distributed_queries, dqms, dqm_pk_seq, poll, returned_count>>
    /\ UNCHANGED <<writeVars, enrollVars, carveVars, logVars>>

---------------------------------------------------------------------------
(* Distributed query results: DistributedWriteView *)

\* Bound: the number of DistributedQueryResult rows the model stores
MaxResultRows == 2

\* The keys of the queries, statuses and messages of a body: two delivery ids, an
\* integer no row has, and a string that is no integer
WriteIds == {"1", "2", "9", "x"}

\* The primary key a key of the body is converted to by pk__in (ValueError: none)
IdParses(id) == id \in {"1", "2", "9"}
IdToPk(id) ==
    CASE id = "1" -> 1
      [] id = "2" -> 2
      [] id = "9" -> 9

\* The rows of a result: sequences of characters, NUL among them
ResultRows == {<<"a">>, <<"b", "NUL">>}

\* zentral.utils.json.remove_null_character: the row without its null characters
RECURSIVE remove_null_character(_)
remove_null_character(row) ==
    IF row = <<>> THEN <<>>
    ELSE IF Head(row) = "NUL" THEN remove_null_character(Tail(row))
         ELSE <<Head(row)>> \o remove_null_character(Tail(row))

\* What a body says under one key: its optional list of rows in queries, its optional
\* status in statuses and its optional message in messages
NoEntry == [results |-> {}, status |-> {}, message |-> {}]
WriteEntries ==
    {NoEntry,
     [results |-> {<< <<"a">> >>}, status |-> {0}, message |-> {}],
     [results |-> {<< <<"a">>, <<"b", "NUL">> >>}, status |-> {}, message |-> {"m"}],
     [results |-> {}, status |-> {1}, message |-> {"m"}]}

\* The bodies of distributed_write: any entry under the first delivery id, rows with
\* their status or nothing under the second, and at most one of the two other keys
WriteBodies ==
    {b \in [WriteIds -> WriteEntries] :
        /\ \A id \in {"2", "9", "x"} :
              b[id] \in {NoEntry, [results |-> {<< <<"a">> >>}, status |-> {0}, message |-> {}]}
        /\ b["9"] = NoEntry \/ b["x"] = NoEntry}

NoWrite == [status |-> 0, node_key |-> 0, body |-> [id \in WriteIds |-> NoEntry]]

\* set(chain(results.keys(), statuses.keys(), messages.keys()))
dqm_pk_set(body) == {id \in WriteIds : body[id] # NoEntry}

\* str(dqm.pk)
StrOfPk(pk) == CHOOSE id \in {"1", "2", "9"} : IdToPk(id) = pk

\* The rows filter(pk__in=dqm_pk_set) returns
dqm_cache(body) ==
    {r \in dqms : \E id \in dqm_pk_set(body) : IdToPk(id) = r.pk}

\* The status a cached row is given: the one of the body, 999 when there is none
StatusOf(body, r) ==
    IF body[StrOfPk(r.pk)].status = {} THEN {999} ELSE body[StrOfPk(r.pk)].status

\* results.get(dqm_pk, [])
ReportedRows(body, r) ==
    IF body[StrOfPk(r.pk)].results = {} THEN <<>>
    ELSE CHOOSE l \in body[StrOfPk(r.pk)].results : TRUE

\* The pairs <<cached row, index of one of its result rows>> of the generator
\* dq_results
ResultPairs(body) ==
    {x \in dqm_cache(body) \X (1..2) : x[2] <= Len(ReportedRows(body, x[1]))}

\* The position of a pair in the generator (the cache is read in the order of the pks)
PairOrdinal(body, x) ==
    Cardinality({y \in ResultPairs(body) :
                    y[1].pk < x[1].pk \/ (y[1].pk = x[1].pk /\ y[2] <= x[2])})

\* The DistributedQueryResult rows bulk_create inserts
NewResults(body, em) ==
    {[pk |-> Cardinality(dq_results) + PairOrdinal(body, x),
      distributed_query |-> x[1].distributed_query,
      serial_number |-> em.serial_number,
      row |-> remove_null_character(ReportedRows(body, x[1])[x[2]])] : x \in ResultPairs(body)}

\* A distributed_write with a node key no row holds: PermissionDenied
WriteRejected(key, body) ==
    /\ Authenticate(key) = {}
    /\ write_out' = [status |-> AuthStatus(key), node_key |-> key, body |-> body]
    /\ UNCHANGED <<distributed_queries, now, dqms, dqm_pk_seq, poll, returned_count, dq_results,
                   write_loop>>
    /\ UNCHANGED <<enrollVars, carveVars, logVars>>

\* DistributedWriteView.do_node_post
DistributedWrite(key, body) ==
    /\ Authenticate(key) # {}
    /\ LET em == CHOOSE m \in Authenticate(key) : TRUE
       IN  IF dqm_pk_set(body) = {}
           THEN /\ write_out' = [status |-> 200, node_key |-> key, body |-> body]
                /\ UNCHANGED <<dqms, dq_results>>
           ELSE IF \E id \in dqm_pk_set(body) : ~IdParses(id)
           THEN /\ write_out' = [status |-> 500, node_key |-> key, body |-> body]
                /\ UNCHANGED <<dqms, dq_results>>
           ELSE /\ Cardinality(dq_results) + Cardinality(ResultPairs(body)) <= MaxResultRows
                /\ dqms' = (dqms \ dqm_cache(body)) \cup
                           {[r EXCEPT !.status = StatusOf(body, r),
                                      !.error_message = body[StrOfPk(r.pk)].message]
                            : r \in dqm_cache(body)}
                /\ dq_results' = dq_results \cup NewResults(body, em)
                /\ write_out' = [status |-> 200, node_key |-> key, body |-> body]
    /\ UNCHANGED <<distributed_queries, now, dqm_pk_seq, poll, returned_count, write_loop>>
    /\ UNCHANGED <<enrollVars, carveVars, logVars>>

\* ---- The insertion loop of do_node_post, batch by batch

\* DistributedWriteView.batch_size
write_batch_size == 100

\* Bound: the number of full batches the rows reported for one delivery id can fill
MaxWriteBatches == 2

\* The number of rows a body reports under each delivery id: two ids of delivery
\* records and one of none
LoopIds == {"1", "2", "9"}
RowCounts ==
    {0, 1} \cup {k * write_batch_size + d : k \in 1..MaxWriteBatches, d \in {-1, 0, 1}}
LoopBodies ==
    {c \in [LoopIds -> RowCounts] : c["9"] \in {0, 1}}

\* The loop of a request: the rows reported, the number of rows the generator has
\* yielded, the number of bulk_create calls
NoLoop == [pc |-> "idle", node_key |-> 0, counts |-> [id \in LoopIds |-> 0],
           consumed |-> 0, batches |-> 0]

\* The rows of dqm_cache, in the order of its items
LoopCache(counts) == {r \in dqms : StrOfPk(r.pk) \in DOMAIN counts}

\* The number of rows reported for a set of cached delivery records
RECURSIVE SumCounts(_, _)
SumCounts(counts, rows) ==
    IF rows = {} THEN 0
    ELSE LET r == CHOOSE x \in rows : TRUE
         IN  counts[StrOfPk(r.pk)] + SumCounts(counts, rows \ {r})

\* The number of items of the generator dq_results: every row reported for a cached
\* delivery record
GeneratorLength(counts) == SumCounts(counts, LoopCache(counts))

\* The delivery record the k-th item of the generator belongs to
GeneratorItem(counts, k) ==
    CHOOSE r \in LoopCache(counts) :
       LET before == SumCounts(counts, {x \in LoopCache(counts) : x.pk < r.pk})
       IN  before < k /\ k <= before + counts[StrOfPk(r.pk)]

\* islice that yields a batch only when batch_size items are left
ISliceFullBatches(counts, consumed) ==
    IF consumed + write_batch_size <= GeneratorLength(counts)
    THEN (consumed + 1)..(consumed + write_batch_size)
    ELSE {}

\* list(islice(dq_results, self.batch_size)): the positions of the next items
ISliceRows(counts, consumed) ==
    (consumed + 1)..(IF consumed + write_batch_size <= GeneratorLength(counts)
                     THEN consumed + write_batch_size
                     ELSE GeneratorLength(counts))

\* do_node_post of an authenticated request reaches the loop: the statuses are
\* saved, the generator is built, nothing is inserted yet
WriteLoopStart(key, counts) ==
    /\ write_loop.pc = "idle"
    /\ Authenticate(key) # {}
    /\ write_loop' = [NoLoop EXCEPT !.pc = "looping", !.node_key = key, !.counts = counts]
    /\ UNCHANGED <<distributed_queries, now, dqms, dqm_pk_seq, poll, returned_count,
                   dq_results, write_out>>
    /\ UNCHANGED <<enrollVars, carveVars, logVars>>

\* One turn of the while loop: the next batch is read; an empty batch ends the loop,
\* any other batch is inserted by bulk_create
WriteLoopBatch ==
    /\ write_loop.pc = "looping"
    /\ LET counts == write_loop.counts
           batch == ISliceRows(counts, write_loop.consumed)
           em == CHOOSE m \in Authenticate(write_loop.node_key) : TRUE
       IN  IF batch = {}
           THEN /\ write_loop' = [write_loop EXCEPT !.pc = "done"]
                /\ UNCHANGED dq_results
           ELSE /\ dq_results' = dq_results \cup
                      {[pk |-> Cardinality(dq_results) + (k - write_loop.consumed),
                        distributed_query |-> GeneratorItem(counts, k).distributed_query,
                        serial_number |-> em.serial_number,
                        row |-> remove_null_character(<<"a">>)] : k \in batch}
                /\ write_loop' = [write_loop EXCEPT !.consumed = @ + Cardinality(batch),
                                                     !.batches = @ + 1]
    /\ UNCHANGED <<distributed_queries, now, dqms, dqm_pk_seq, poll, returned_count, write_out>>
    /\ UNCHANGED <<enrollVars, carveVars, logVars>>

---------------------------------------------------------------------------
(* File carving: ContinueFileCarvingView *)

\* Bounds: the largest block_count of a session, and the largest block_id sent
MaxBlockCount == 2
MaxBlockId == 2

\* uuid.uuid4() values: two sessions, and an id no session has
SessionIds == {"s1", "s2"}
UnknownSessionId == "s9"
\* A session_id that is no UUID: the lookup by primary key raises ValidationError
MalformedSessionId == "not-a-uuid"
CarveRequests == {"c1", "c2"}
BlockIds == 0..MaxBlockId

\* A request slot: pc is "idle", "waiting" (the body is parsed, the session is not
\* yet read), "locked" (authenticate is over: the session row is locked), "written"
\* (the block is created and counted, the commit is next) or "done" (answered).
\* block_id and data are the values do_node_post has read from the body.
IdleCarve == [pc |-> "idle", session |-> {}, block_id |-> {}, data |-> {},
              status |-> 0, error |-> "", session_finished |-> FALSE]

SessionRow(sid) == CHOOSE x \in sessions : x.id = sid
SessionOf(c) == CHOOSE sid \in carve[c].session : TRUE
BlockIdOf(c) == CHOOSE b \in carve[c].block_id : TRUE
DataOf(c) == CHOOSE d \in carve[c].data : TRUE

\* The answer of a failed request: nothing it wrote is kept
CarveFails(c, bid, code, error) ==
    carve' = [carve EXCEPT ![c] = [@ EXCEPT !.pc = "done", !.block_id = bid, !.data = {},
                                            !.status = code, !.error = error,
                                            !.session_finished = FALSE]]

\* The end of the transaction of c releases the row lock it holds
Released(c) == [sid \in SessionIds |-> IF session_lock[sid] = c THEN "" ELSE session_lock[sid]]

\* BaseJsonPostView.post: the body of a carve_continue request is parsed
CarveArrive(c, sid) ==
    /\ carve[c].pc \in {"idle", "done"}
    /\ carve' = [carve EXCEPT ![c] = [IdleCarve EXCEPT !.pc = "waiting", !.session = sid]]
    /\ UNCHANGED <<sessions, blocks, session_lock, dispatched, finished_reports>>
    /\ UNCHANGED <<start_out, enrollVars, distVars, logVars>>

\* ContinueFileCarvingView.authenticate: no session_id, no such session, or a
\* session_id the UUIDField primary key does not convert
CarveRejected(c) ==
    /\ carve[c].pc = "waiting"
    /\ \/ /\ carve[c].session = {}
          /\ CarveFails(c, {}, 400, "Missing session_id")
       \/ /\ carve[c].session # {}
          /\ SessionOf(c) # MalformedSessionId
          /\ SessionOf(c) \notin {x.id : x \in sessions}
          /\ CarveFails(c, {}, 403, "Unknown session_id")
       \/ /\ carve[c].session = {MalformedSessionId}
          /\ CarveFails(c, {}, 500, "ValidationError")
    /\ UNCHANGED <<sessions, blocks, session_lock, dispatched, finished_reports>>
    /\ UNCHANGED <<start_out, enrollVars, distVars, logVars>>

\* select_for_update() waits until no other transaction holds the row lock
LockFreeAlways(sid) == TRUE

\* One lock for the whole table instead of one per row
LockFreeGlobal(sid) == \A x \in SessionIds : session_lock[x] = ""

LockFree(sid) == session_lock[sid] = ""

\* ContinueFileCarvingView.authenticate: the session row is locked and the latest
\* enrolled machine of its serial number is read
CarveAuthenticate(c) ==
    /\ carve[c].pc = "waiting"
    /\ carve[c].session # {}
    /\ SessionOf(c) \in {x.id : x \in sessions}
    /\ LockFree(SessionOf(c))
    /\ IF \E m \in enrolled_machines : m.serial_number = SessionRow(SessionOf(c)).serial_number
       THEN /\ carve' = [carve EXCEPT ![c].pc = "locked"]
            /\ session_lock' = [session_lock EXCEPT ![SessionOf(c)] = c]
       ELSE /\ CarveFails(c, {}, 403, "Unknown machine")
            /\ UNCHANGED session_lock
    /\ UNCHANGED <<sessions, blocks, dispatched, finished_reports>>
    /\ UNCHANGED <<start_out, enrollVars, distVars, logVars>>

\* do_node_post: block_id or data is missing or unreadable
CarveInvalid(c, bid, data) ==
    /\ carve[c].pc = "locked"
    /\ bid = {} \/ data = {}
    /\ CarveFails(c, bid, 400, IF bid = {} THEN "Missing block_id" ELSE "Missing block data")
    /\ session_lock' = Released(c)
    /\ UNCHANGED <<sessions, blocks, dispatched, finished_reports>>
    /\ UNCHANGED <<start_out, enrollVars, distVars, logVars>>

\* FileCarvingBlock.objects.create fails on unique_together (session, block_id)
UniqueBlockViolationNever(sid, bid) == FALSE

UniqueBlockViolation(sid, bid) ==
    \E b \in blocks : b.file_carving_session = sid /\ b.block_id = bid

\* The count of the committed blocks alone
BlockCountCommitted(sid) ==
    Cardinality({b \in blocks : b.file_carving_session = sid})

\* FileCarvingBlock.objects.filter(file_carving_session=session).count(), in the
\* transaction that has just created one block
BlockCount(sid) ==
    Cardinality({b \in blocks : b.file_carving_session = sid}) + 1

\* do_node_post from the creation of the block to the on_commit registration.
\* An insert waits for a transaction that has inserted the same key and not ended.
CarveWrite(c, bid, data) ==
    /\ carve[c].pc = "locked"
    /\ bid # {} /\ data # {}
    /\ ~\E o \in CarveRequests \ {c} :
          /\ carve[o].pc = "written"
          /\ carve[o].session = carve[c].session
          /\ carve[o].block_id = bid
    /\ IF \E b \in bid : UniqueBlockViolation(SessionOf(c), b)
       THEN /\ CarveFails(c, bid, 500, "IntegrityError")
            /\ session_lock' = Released(c)
            /\ UNCHANGED finished_reports
       ELSE LET finished == BlockCount(SessionOf(c)) = SessionRow(SessionOf(c)).block_count
            IN  /\ carve' = [carve EXCEPT ![c] = [@ EXCEPT !.pc = "written",
                                                           !.block_id = bid, !.data = data,
                                                           !.session_finished = finished]]
                /\ finished_reports' =
                      [finished_reports EXCEPT ![SessionOf(c)] = IF finished THEN @ + 1 ELSE @]
                /\ UNCHANGED session_lock
    /\ UNCHANGED <<sessions, blocks, dispatched>>
    /\ UNCHANGED <<start_out, enrollVars, distVars, logVars>>

\* cb.file.save raises (the storage fails): the request fails and is rolled back
CarveSaveFails(c, bid, data) ==
    /\ carve[c].pc = "locked"
    /\ bid # {} /\ data # {}
    /\ ~\E b \in bid : UniqueBlockViolation(SessionOf(c), b)
    /\ CarveFails(c, bid, 500, "file.save")
    /\ session_lock' = Released(c)
    /\ UNCHANGED <<sessions, blocks, dispatched, finished_reports>>
    /\ UNCHANGED <<start_out, enrollVars, distVars, logVars>>

\* The archive builds the on_commit hooks of request c start
ArchiveBuildsAlways(c) == 1

ArchiveBuilds(c) == IF carve[c].session_finished THEN 1 ELSE 0

\* The commit of the request, its on_commit hooks, and the answer
CarveCommit(c) ==
    /\ carve[c].pc = "written"
    /\ blocks' = blocks \cup {[file_carving_session |-> SessionOf(c),
                               block_id |-> BlockIdOf(c), file |-> DataOf(c)]}
    /\ dispatched' = [dispatched EXCEPT ![SessionOf(c)] = @ + ArchiveBuilds(c)]
    /\ session_lock' = Released(c)
    /\ carve' = [carve EXCEPT ![c] = [@ EXCEPT !.pc = "done", !.data = {}, !.status = 200]]
    /\ UNCHANGED <<sessions, finished_reports>>
    /\ UNCHANGED <<start_out, enrollVars, distVars, logVars>>

---------------------------------------------------------------------------
(* File carving: StartFileCarvingView *)

\* The rows of PackQuery: one query of one pack
PackQueries == {[pk |-> 1, pack |-> 1, query |-> 1]}

\* The values of request_id, as lists of the parts Pack.DELIMITER separates: none,
\* the empty string, the id of a delivery record, an integer no delivery record has,
\* a word, the configuration key of the pack query, one of no pack query, and one
\* whose pack is no integer
RequestIds ==
    {<<>>, <<"">>, <<"1">>, <<"9">>, <<"abc">>,
     <<"pack", "1", "query", "1", "v">>,
     <<"pack", "9", "query", "9", "v">>,
     <<"pack", "x", "query", "1", "v">>}

NoStart == [status |-> 0, error |-> "", node_key |-> 0, request_id |-> <<>>, session_id |-> {}]

\* int(request_id) does not raise ValueError
IsInteger(request_id) == Len(request_id) = 1 /\ IsIntString(request_id[1])

\* PackQueryManager.get_with_config_key: ValueError unless the key has five parts, the
\* second and the fourth integers; then the rows of that pack and that query
ConfigKeyParses(key) == Len(key) = 5 /\ IsIntString(key[2]) /\ IsIntString(key[4])
get_with_config_key(key) ==
    {pq \in PackQueries : pq.pack = IntOf(key[2]) /\ pq.query = IntOf(key[4])}

\* The origin do_node_post resolves request_id to: the status of the failure (200:
\* none) and the values of distributed_query and pack_query
OriginLenient(request_id) ==
    IF ~Truthy(request_id)
    THEN [status |-> 400, error |-> "Missing request_id", distributed_query |-> {}, pack_query |-> {}]
    ELSE IF IsInteger(request_id)
    THEN [status |-> 200, error |-> "",
          distributed_query |-> {r.distributed_query : r \in {x \in dqms : x.pk = IntOf(request_id[1])}},
          pack_query |-> {}]
    ELSE IF ~ConfigKeyParses(request_id)
    THEN [status |-> 400, error |-> "Unknown request_id format", distributed_query |-> {}, pack_query |-> {}]
    ELSE [status |-> 200, error |-> "", distributed_query |-> {},
          pack_query |-> {pq.pk : pq \in get_with_config_key(request_id)}]

Origin(request_id) ==
    IF ~Truthy(request_id)
    THEN [status |-> 400, error |-> "Missing request_id", distributed_query |-> {}, pack_query |-> {}]
    ELSE IF IsInteger(request_id)
    THEN IF \E r \in dqms : r.pk = IntOf(request_id[1])
         THEN [status |-> 200, error |-> "",
               distributed_query |-> {r.distributed_query : r \in {x \in dqms : x.pk = IntOf(request_id[1])}},
               pack_query |-> {}]
         ELSE [status |-> 404, error |-> "Unknown distributed query",
               distributed_query |-> {}, pack_query |-> {}]
    ELSE IF ~ConfigKeyParses(request_id)
    THEN [status |-> 400, error |-> "Unknown request_id format", distributed_query |-> {}, pack_query |-> {}]
    ELSE IF get_with_config_key(request_id) = {}
    THEN [status |-> 404, error |-> "Unknown pack query", distributed_query |-> {}, pack_query |-> {}]
    ELSE [status |-> 200, error |-> "", distributed_query |-> {},
          pack_query |-> {pq.pk : pq \in get_with_config_key(request_id)}]

\* A carve_start with a node key no row holds: PermissionDenied
StartRejected(key, request_id) ==
    /\ Authenticate(key) = {}
    /\ start_out' = [NoStart EXCEPT !.status = AuthStatus(key),
                                    !.error = IF key = NoNodeKey THEN "Missing node_key"
                                              ELSE "Wrong node_key",
                                    !.node_key = key, !.request_id = request_id]
    /\ UNCHANGED <<sessions, blocks, session_lock, carve, dispatched, finished_reports>>
    /\ UNCHANGED <<enrollVars, distVars, logVars>>

\* StartFileCarvingView.do_node_post.  carve holds the keys carve_id, carve_size,
\* block_size and block_count of the body (none: KeyError), n is int(block_count),
\* uuid.uuid4() is an id no session has.
StartFileCarving(key, request_id, has_carve, n) ==
    /\ Authenticate(key) # {}
    /\ LET em == CHOOSE m \in Authenticate(key) : TRUE
           origin == Origin(request_id)
           out == [NoStart EXCEPT !.node_key = key, !.request_id = request_id]
       IN  IF origin.status # 200
           THEN /\ start_out' = [out EXCEPT !.status = origin.status, !.error = origin.error]
                /\ UNCHANGED sessions
           ELSE IF ~has_carve
           THEN /\ start_out' = [out EXCEPT !.status = 500, !.error = "KeyError"]
                /\ UNCHANGED sessions
           ELSE \E sid \in SessionIds \ {x.id : x \in sessions} :
                   /\ sessions' = sessions \cup
                         {[id |-> sid, distributed_query |-> origin.distributed_query,
                           pack_query |-> origin.pack_query,
                           serial_number |-> em.serial_number, block_count |-> n]}
                   /\ start_out' = [out EXCEPT !.status = 200, !.session_id = {sid}]
    /\ UNCHANGED <<blocks, session_lock, carve, dispatched, finished_reports>>
    /\ UNCHANGED <<enrollVars, distVars, logVars>>

---------------------------------------------------------------------------
(* Log ingestion: LogView *)

\* Bound: the number of records of a log request
MaxBatch == 2

\* zentral.contrib.osquery.conf.INVENTORY_QUERY_NAME
INVENTORY_QUERY_NAME == "ztl-inventory-query"

\* The decorations a record carries ({}: no "decorations" key), each with an
\* optional serial_number and an optional version
DecorationsInputs ==
    {{},
     {[serial_number |-> {"SN1"}, version |-> {<<"5", "1", "0">>}]},
     {[serial_number |-> {"SN1"}, version |-> {}]},
     {[serial_number |-> {}, version |-> {<<"5", "1", "0">>}]}}

\* The records of a log request: an optional unixTime, the name of the query,
\* the snapshot of an inventory record, and the decorations
LogRecords ==
    [unixTime : {{}, {1}, {2}},
     name : {INVENTORY_QUERY_NAME},
     snapshot : {{"A"}, {"B"}},
     decorations : DecorationsInputs]
    \cup
    [unixTime : {{}, {1}, {2}},
     name : {"q1"},
     snapshot : {{}},
     decorations : DecorationsInputs]

\* The outcome of a log request: the request (node key, log_type, data), the status
\* and the body of the answer, and the calls made to the collaborators
NoLog == [status |-> 0, node_key |-> 0, log_type |-> "", data |-> <<>>,
          node_invalid |-> FALSE, conflict_event |-> FALSE,
          committed |-> {}, results_posted |-> FALSE, results |-> <<>>,
          status_logs_posted |-> FALSE, status_logs |-> <<>>]

\* key=lambda r: r.get("unixTime", 0)
SortKey(r) == IF r.unixTime = {} THEN 0 ELSE CHOOSE t \in r.unixTime : TRUE

\* r put into a sorted list behind the records whose key is not greater
RECURSIVE InsertSorted(_, _)
InsertSorted(r, l) ==
    IF l = <<>> THEN <<r>>
    ELSE IF SortKey(Head(l)) <= SortKey(r)
         THEN <<Head(l)>> \o InsertSorted(r, Tail(l))
         ELSE <<r>> \o l

\* records.sort(key=...): a stable sort
RECURSIVE SortRecords(_)
SortRecords(l) ==
    IF l = <<>> THEN <<>>
    ELSE InsertSorted(l[Len(l)], SortRecords(SubSeq(l, 1, Len(l) - 1)))

\* records[-1].get("decorations", {})
LastDecorations(records) ==
    LET d == records[Len(records)].decorations
    IN  IF d = {} THEN [serial_number |-> {}, version |-> {}] ELSE CHOOSE x \in d : TRUE

\* process_decorations: the reported serial number differs from the machine's
SerialConflict(records, em) ==
    \E sn \in LastDecorations(records).serial_number : sn # em.serial_number

\* process_decorations without the return of the serial number check
RefreshedDespiteConflict(records, em) ==
    LET v == LastDecorations(records).version
    IN  IF \E x \in v : Truthy(x) /\ em.osquery_version # x
        THEN [em EXCEPT !.osquery_version = CHOOSE x \in v : TRUE]
        ELSE em

\* process_decorations: the enrolled machine after the version refresh
RefreshedMachine(records, em) ==
    IF SerialConflict(records, em)
    THEN em
    ELSE LET v == LastDecorations(records).version
         IN  IF \E x \in v : Truthy(x) /\ em.osquery_version # x
             THEN [em EXCEPT !.osquery_version = CHOOSE x \in v : TRUE]
             ELSE em

\* The snapshot of the first inventory record of the list, not of the last
FirstInventorySnapshot(records) ==
    LET idx == {i \in 1..Len(records) : records[i].name = INVENTORY_QUERY_NAME}
    IN  IF idx = {} THEN {}
        ELSE records[CHOOSE i \in idx : \A j \in idx : i <= j].snapshot

\* The value of last_inventory_snapshot after the loop over the records
RECURSIVE LastInventorySnapshot(_)
LastInventorySnapshot(records) ==
    IF records = <<>> THEN {}
    ELSE IF records[Len(records)].name = INVENTORY_QUERY_NAME
         THEN records[Len(records)].snapshot
         ELSE LastInventorySnapshot(SubSeq(records, 1, Len(records) - 1))

\* The list results after the loop over the records
RECURSIVE ResultRecords(_)
ResultRecords(records) ==
    IF records = <<>> THEN <<>>
    ELSE IF Head(records).name = INVENTORY_QUERY_NAME
         THEN ResultRecords(Tail(records))
         ELSE <<Head(records)>> \o ResultRecords(Tail(records))

\* The agent buffers one more record
LogAppend(r) ==
    /\ Len(log_batch) < MaxBatch
    /\ log_batch' = Append(log_batch, r)
    /\ log_out' = NoLog
    /\ UNCHANGED <<enrollVars, distVars, carveVars>>

\* A log request with a node key no row holds: PermissionDenied
LogRejected(key, log_type) ==
    /\ Authenticate(key) = {}
    /\ log_out' = [NoLog EXCEPT !.status = AuthStatus(key), !.node_key = key, !.log_type = log_type,
                                !.data = log_batch]
    /\ log_batch' = <<>>
    /\ UNCHANGED <<enrollVars, distVars, carveVars>>

\* LogView.do_node_post with every log_type other than "status" handled as "result"
LogPostResultByDefault(key, log_type) ==
    /\ Authenticate(key) # {}
    /\ LET em == CHOOSE m \in Authenticate(key) : TRUE
           records == SortRecords(log_batch)
           base == [NoLog EXCEPT !.status = 200, !.node_key = key, !.log_type = log_type,
                                 !.data = log_batch]
       IN  IF log_batch = <<>>
           THEN /\ log_out' = base
                /\ UNCHANGED enrolled_machines
           ELSE /\ enrolled_machines' =
                      (enrolled_machines \ {em}) \cup {RefreshedMachine(records, em)}
                /\ log_out' =
                      [base EXCEPT
                         !.conflict_event = SerialConflict(records, em),
                         !.node_invalid = FALSE,
                         !.committed = IF log_type # "status"
                                       THEN LastInventorySnapshot(records) ELSE {},
                         !.results_posted = (log_type # "status"),
                         !.results = IF log_type # "status"
                                     THEN ResultRecords(records) ELSE <<>>,
                         !.status_logs_posted = (log_type = "status"),
                         !.status_logs = IF log_type = "status" THEN records ELSE <<>>]
    /\ log_batch' = <<>>
    /\ UNCHANGED <<machine_tags, machine_pk_seq, node_key_seq, issued_keys,
                   enroll_response, enrollment_event>>
    /\ UNCHANGED <<distVars, carveVars>>

\* LogView.do_node_post
LogPost(key, log_type) ==
    /\ Authenticate(key) # {}
    /\ LET em == CHOOSE m \in Authenticate(key) : TRUE
           records == SortRecords(log_batch)
           base == [NoLog EXCEPT !.status = 200, !.node_key = key, !.log_type = log_type,
                                 !.data = log_batch]
       IN  IF log_batch = <<>>
           THEN /\ log_out' = base
                /\ UNCHANGED enrolled_machines
           ELSE /\ enrolled_machines' =
                      (enrolled_machines \ {em}) \cup {RefreshedMachine(records, em)}
                /\ log_out' =
                      [base EXCEPT
                         !.conflict_event = SerialConflict(records, em),
                         !.node_invalid = FALSE,
                         !.committed = IF log_type = "result"
                                       THEN LastInventorySnapshot(records) ELSE {},
                         !.results_posted = (log_type = "result"),
                         !.results = IF log_type = "result"
                                     THEN ResultRecords(records) ELSE <<>>,
                         !.status_logs_posted = (log_type = "status"),
                         !.status_logs = IF log_type = "status" THEN records ELSE <<>>]
    /\ log_batch' = <<>>
    /\ UNCHANGED <<machine_tags, machine_pk_seq, node_key_seq, issued_keys,
                   enroll_response, enrollment_event>>
    /\ UNCHANGED <<distVars, carveVars>>

---------------------------------------------------------------------------
(* The specification of the distributed query selector *)

\* Two enrolled machines: a macOS host of enrollment E1 (tagged T1 by its secret)
\* and a host enrolled without platform_type and version
DistMachines ==
    {[pk |-> 1, enrollment |-> "E1", serial_number |-> "SN1", node_key |-> 1,
      platform_mask |-> 17, osquery_version |-> <<"5", "0", "0">>],
     [pk |-> 2, enrollment |-> "E2", serial_number |-> "SN2", node_key |-> 2,
      platform_mask |-> 0, osquery_version |-> NoVersion]}

\* A query without any restriction, active from the start
PlainQuery(pk) ==
    [pk |-> pk, sql |-> <<"sql", pk>>, platforms |-> {}, minimum_osquery_version |-> NoVersion,
     valid_from |-> 0, valid_until |-> {}, serial_numbers |-> {}, tags |-> {}, shard |-> 100]

\* The rows one DistributedQuery can be
QueryRows(pk) ==
    [pk : {pk}, sql : {<<"sql", pk>>},
     platforms : {{}, {"darwin"}, {"linux"}},
     minimum_osquery_version : {NoVersion, <<"5", "0", "0">>},
     valid_from : {0, 1},
     valid_until : {{}, {0}},
     serial_numbers : {{}, {"SN1"}},
     tags : {{}, {"T1"}},
     shard : {100, 50}]

EnrollIdle ==
    /\ machine_pk_seq = 0
    /\ node_key_seq = 0
    /\ issued_keys = [s \in SerialNumbers |-> <<>>]
    /\ enroll_response = [status |-> 0, node_key |-> 0]
    /\ enrollment_event = [serial_number |-> "", action |-> ""]

DistIdle ==
    /\ now = 0
    /\ dqms = {}
    /\ dqm_pk_seq = 0
    /\ poll = [p \in Pollers |-> IdlePoll]
    /\ returned_count = [k \in SerialNumbers \X QueryIds |-> 0]
    /\ dq_results = {}
    /\ write_out = NoWrite
    /\ write_loop = NoLoop

CarveIdle ==
    /\ start_out = NoStart
    /\ blocks = {}
    /\ session_lock = [sid \in SessionIds |-> ""]
    /\ carve = [c \in CarveRequests |-> IdleCarve]
    /\ dispatched = [sid \in SessionIds |-> 0]
    /\ finished_reports = [sid \in SessionIds |-> 0]

LogIdle == log_batch = <<>> /\ log_out = NoLog

\* The database holds NumQueries queries: one of them (the first, the one at the
\* batch size or the last) is any row, the others are plain
ProbeIds == {1, batch_size, NumQueries}

InitDist ==
    /\ enrolled_machines = DistMachines
    /\ machine_tags = {<<"SN1", "T1">>}
    /\ EnrollIdle
    /\ \E probe \in ProbeIds : \E row \in QueryRows(probe) :
          distributed_queries = [pk \in QueryIds |-> IF pk = probe THEN row ELSE PlainQuery(pk)]
    /\ DistIdle
    /\ sessions = {}
    /\ CarveIdle
    /\ LogIdle

\* One enrolled machine and a probe that varies in its activity window only
InitDistConc ==
    /\ enrolled_machines = {m \in DistMachines : m.serial_number = "SN1"}
    /\ machine_tags = {<<"SN1", "T1">>}
    /\ EnrollIdle
    /\ \E probe \in QueryIds : \E from \in {0, 1}, until \in {{}, {0}} :
          distributed_queries =
             [pk \in QueryIds |->
                 IF pk = probe
                 THEN [PlainQuery(pk) EXCEPT !.valid_from = from, !.valid_until = until]
                 ELSE PlainQuery(pk)]
    /\ DistIdle
    /\ sessions = {}
    /\ CarveIdle
    /\ LogIdle

\* The node keys a request carries: those of the two machines and an unknown one
NodeKeys == {1, 2, 3}

\* One distributed_read at a time
NextDist ==
    \/ \E key \in NodeKeys : ReadRejected("p1", key)
    \/ \E key \in NodeKeys : ReadSelect("p1", key)
    \/ ReadCreate("p1")
    \/ Tick

SpecDist == InitDist /\ [][NextDist]_vars

\* Concurrent distributed_read requests
NextDistConc ==
    \/ \E p \in Pollers, key \in NodeKeys : ReadRejected(p, key)
    \/ \E p \in Pollers, key \in NodeKeys : ReadSelect(p, key)
    \/ \E p \in Pollers : ReadCreate(p)
    \/ Tick

SpecDistConc == InitDistConc /\ [][NextDistConc]_vars

\* The versions an enrolled machine can hold: none, the empty string, three release
\* numbers and a string that is no dot-separated list of integers
GateVersions ==
    {NoVersion, <<"">>, <<"4", "9", "9">>, <<"5", "0", "0">>, <<"5", "1", "0">>,
     <<"5", "x", "0">>}

\* The minimum versions of the probe
GateMinimumVersions == {NoVersion, <<"5", "0", "0">>, <<"5", "1", "0">>}

\* One enrolled machine of any stored version, and a probe of any minimum version
InitGate ==
    /\ \E v \in GateVersions :
          enrolled_machines =
             {[m EXCEPT !.osquery_version = v] : m \in {x \in DistMachines : x.serial_number = "SN1"}}
    /\ machine_tags = {<<"SN1", "T1">>}
    /\ EnrollIdle
    /\ \E probe \in ProbeIds : \E v \in GateMinimumVersions :
          distributed_queries =
             [pk \in QueryIds |->
                 IF pk = probe
                 THEN [PlainQuery(pk) EXCEPT !.minimum_osquery_version = v]
                 ELSE PlainQuery(pk)]
    /\ DistIdle
    /\ sessions = {}
    /\ CarveIdle
    /\ LogIdle

SpecGate == InitGate /\ [][NextDist]_vars

\* A query that is not active before the clock of the model ends
LateQuery(pk) == [PlainQuery(pk) EXCEPT !.valid_from = MaxTime + 1]

\* The delivery records after each of the two machines has polled once: the single
\* active query, the first, is delivered to both
DeliveredOnce ==
    {[pk |-> 1, distributed_query |-> 1, serial_number |-> "SN1", status |-> {},
      error_message |-> {}],
     [pk |-> 2, distributed_query |-> 1, serial_number |-> "SN2", status |-> {},
      error_message |-> {}]}

InitWrite ==
    /\ enrolled_machines = DistMachines
    /\ machine_tags = {<<"SN1", "T1">>}
    /\ EnrollIdle
    /\ distributed_queries = [pk \in QueryIds |-> IF pk = 1 THEN PlainQuery(pk) ELSE LateQuery(pk)]
    /\ now = 0
    /\ dqms = DeliveredOnce
    /\ dqm_pk_seq = 2
    /\ poll = [p \in Pollers |-> IdlePoll]
    /\ returned_count = [k \in SerialNumbers \X QueryIds |-> IF k[2] = 1 THEN 1 ELSE 0]
    /\ dq_results = {}
    /\ write_out = NoWrite
    /\ write_loop = NoLoop
    /\ sessions = {}
    /\ CarveIdle
    /\ LogIdle

\* distributed_write requests, one at a time
NextWrite ==
    \/ \E key \in NodeKeys, body \in WriteBodies : WriteRejected(key, body)
    \/ \E key \in NodeKeys, body \in WriteBodies : DistributedWrite(key, body)

SpecWrite == InitWrite /\ [][NextWrite]_vars

\* One distributed_write from its first batch to the end of its loop.  The loop is
\* sequential code of one request: it takes its next turn as long as it has one.
NextWriteLoop ==
    \/ \E key \in {1, 2}, counts \in LoopBodies : WriteLoopStart(key, counts)
    \/ WriteLoopBatch

SpecWriteLoop == InitWrite /\ [][NextWriteLoop]_vars /\ WF_vars(WriteLoopBatch)

---------------------------------------------------------------------------
(* The specifications of file carving *)

\* Two sessions opened by carve_start: one of a distributed query with any block
\* count, one of a pack query with a single block
CarveSessions(n) ==
    {[id |-> "s1", distributed_query |-> {1}, pack_query |-> {}, serial_number |-> "SN1",
      block_count |-> n],
     [id |-> "s2", distributed_query |-> {}, pack_query |-> {1}, serial_number |-> "SN2",
      block_count |-> 1]}

InitCarve ==
    /\ enrolled_machines = DistMachines
    /\ machine_tags = {<<"SN1", "T1">>}
    /\ EnrollIdle
    /\ distributed_queries = [pk \in QueryIds |-> PlainQuery(pk)]
    /\ DistIdle
    /\ \E n \in 1..MaxBlockCount : sessions = CarveSessions(n)
    /\ CarveIdle
    /\ LogIdle

\* The values a carve_continue body carries ({}: the key is missing or unreadable)
BlockIdInputs == {{}} \cup {{b} : b \in BlockIds}
DataInputs == {{}, {"a"}, {"b"}}

\* One carve_continue at a time, with any body, for the first session, for an
\* unknown session or without session_id
NextCarve ==
    \/ \E sid \in {{}, {"s1"}, {UnknownSessionId}, {MalformedSessionId}} : CarveArrive("c1", sid)
    \/ CarveRejected("c1")
    \/ CarveAuthenticate("c1")
    \/ \E bid \in BlockIdInputs, data \in DataInputs : CarveInvalid("c1", bid, data)
    \/ \E bid \in BlockIdInputs, data \in DataInputs : CarveWrite("c1", bid, data)
    \/ \E bid \in BlockIdInputs, data \in DataInputs : CarveSaveFails("c1", bid, data)
    \/ CarveCommit("c1")

SpecCarve == InitCarve /\ [][NextCarve]_vars

\* Concurrent carve_continue requests with well-formed bodies, for any session
NextCarveConc ==
    \/ \E c \in CarveRequests : \E sid \in {{"s1"}, {"s2"}, {UnknownSessionId}} :
          CarveArrive(c, sid)
    \/ \E c \in CarveRequests : CarveRejected(c)
    \/ \E c \in CarveRequests : CarveAuthenticate(c)
    \/ \E c \in CarveRequests : \E bid \in BlockIds : CarveWrite(c, {bid}, {"a"})
    \/ \E c \in CarveRequests : CarveCommit(c)

SpecCarveConc == InitCarve /\ [][NextCarveConc]_vars

\* An agent that sends the blocks of its session, each index below block_count, in
\* any order and as often as it likes, over two connections; the storage may fail
NextCarveLive ==
    \/ \E c \in CarveRequests : \E sid \in SessionIds : CarveArrive(c, {sid})
    \/ \E c \in CarveRequests : CarveAuthenticate(c)
    \/ \E c \in CarveRequests : \E bid \in BlockIds :
          /\ carve[c].pc = "locked"
          /\ bid < SessionRow(SessionOf(c)).block_count
          /\ CarveWrite(c, {bid}, {"a"})
    \/ \E c \in CarveRequests : \E bid \in BlockIds :
          /\ carve[c].pc = "locked"
          /\ bid < SessionRow(SessionOf(c)).block_count
          /\ CarveSaveFails(c, {bid}, {"a"})
    \/ \E c \in CarveRequests : CarveCommit(c)

\* The agent sends every index of every session again and again until it is stored
\* (a block that is not stored is sent again), a request that waits for the row lock
\* gets it when its turn comes, and a request that has written commits
CarveFairness ==
    /\ \A sid \in SessionIds : SF_vars(\E c \in CarveRequests : CarveArrive(c, {sid}))
    /\ \A c \in CarveRequests : SF_vars(CarveAuthenticate(c))
    /\ \A sid \in SessionIds : \A bid \in BlockIds :
          SF_vars(\E c \in CarveRequests :
                     /\ carve[c].pc = "locked"
                     /\ carve[c].session = {sid}
                     /\ bid < SessionRow(sid).block_count
                     /\ CarveWrite(c, {bid}, {"a"}))
    /\ \A c \in CarveRequests : WF_vars(CarveCommit(c))

SpecCarveLive == InitCarve /\ [][NextCarveLive]_vars /\ CarveFairness

\* The delivery records of the two machines exist, no session does
InitStart ==
    /\ enrolled_machines = DistMachines
    /\ machine_tags = {<<"SN1", "T1">>}
    /\ EnrollIdle
    /\ distributed_queries = [pk \in QueryIds |-> IF pk = 1 THEN PlainQuery(pk) ELSE LateQuery(pk)]
    /\ now = 0
    /\ dqms = DeliveredOnce
    /\ dqm_pk_seq = 2
    /\ poll = [p \in Pollers |-> IdlePoll]
    /\ returned_count = [k \in SerialNumbers \X QueryIds |-> IF k[2] = 1 THEN 1 ELSE 0]
    /\ dq_results = {}
    /\ write_out = NoWrite
    /\ write_loop = NoLoop
    /\ sessions = {}
    /\ CarveIdle
    /\ LogIdle

\* carve_start requests, one at a time
NextStart ==
    \/ \E key \in NodeKeys, request_id \in RequestIds : StartRejected(key, request_id)
    \/ \E key \in NodeKeys, request_id \in RequestIds :
          \E has_carve \in BOOLEAN, n \in 1..MaxBlockCount :
             StartFileCarving(key, request_id, has_carve, n)

SpecStart == InitStart /\ [][NextStart]_vars

---------------------------------------------------------------------------
(* The specification of log ingestion *)

InitLog ==
    /\ enrolled_machines = DistMachines
    /\ machine_tags = {<<"SN1", "T1">>}
    /\ EnrollIdle
    /\ distributed_queries = [pk \in QueryIds |-> PlainQuery(pk)]
    /\ DistIdle
    /\ sessions = {}
    /\ CarveIdle
    /\ LogIdle

LogTypes == {"result", "status", "snapshot"}

NextLog ==
    \/ \E r \in LogRecords : LogAppend(r)
    \/ \E key \in NodeKeys, log_type \in LogTypes : LogRejected(key, log_type)
    \/ \E key \in NodeKeys, log_type \in LogTypes : LogPost(key, log_type)

SpecLog == InitLog /\ [][NextLog]_vars

---------------------------------------------------------------------------
(* The specification of enrollment *)

InitEnroll ==
    /\ enrolled_machines = {}
    /\ machine_tags = {}
    /\ EnrollIdle
    /\ distributed_queries = [pk \in QueryIds |-> PlainQuery(pk)]
    /\ DistIdle
    /\ sessions = {}
    /\ CarveIdle
    /\ LogIdle

\* The values an enroll body carries: the secret of an enrollment or a wrong one,
\* a serial number or none, an optional platform_type, an optional version
SecretInputs == Enrollments \cup {"wrong"}
SerialInputs == SerialNumbers \cup {""}
PlatformInputs == {{}, {17}}
VersionInputs == {{}, {<<"5", "0", "0">>}}

NextEnroll ==
    \/ \E secret \in SecretInputs, s \in SerialInputs : EnrollRejected(secret, s)
    \/ \E secret \in SecretInputs, s \in SerialInputs :
          \E plat \in PlatformInputs, ver \in VersionInputs : Enroll(secret, s, plat, ver)

SpecEnroll == InitEnroll /\ [][NextEnroll]_vars

---------------------------------------------------------------------------
(* The specification of node authentication: BaseNodeView *)

\* The node key of a request: missing, held by the first machine, or held by no row
AuthKeys == {NoNodeKey, 1, 3}

\* One write body that reports a row for the first delivery, one carve request of a
\* distributed query, one result record with an inventory snapshot
AuthWriteBody ==
    [id \in WriteIds |-> IF id = "1" THEN [results |-> {<< <<"a">> >>}, status |-> {0}, message |-> {}]
                         ELSE NoEntry]
AuthRequestId == <<"1">>
AuthRecord == [unixTime |-> {1}, name |-> INVENTORY_QUERY_NAME, snapshot |-> {"A"},
               decorations |-> {[serial_number |-> {"SN1"}, version |-> {<<"5", "1", "0">>}]}]

\* Requests of every node endpoint, one at a time, with any of the three keys
NextAuth ==
    \/ \E key \in AuthKeys : ReadRejected("p1", key)
    \/ \E key \in AuthKeys : WriteRejected(key, AuthWriteBody)
    \/ \E key \in AuthKeys : DistributedWrite(key, AuthWriteBody)
    \/ \E key \in AuthKeys : StartRejected(key, AuthRequestId)
    \/ \E key \in AuthKeys : StartFileCarving(key, AuthRequestId, TRUE, 1)
    \/ LogAppend(AuthRecord)
    \/ \E key \in AuthKeys : LogRejected(key, "result")
    \/ \E key \in AuthKeys : LogPost(key, "result")

SpecAuth == InitWrite /\ [][NextAuth]_vars

---------------------------------------------------------------------------
(* Claims on the distributed query selector *)

Min(a, b) == IF a <= b THEN a ELSE b

\* a <= b in the lexicographic order of tuples
TupleLE(a, b) ==
    \/ a = b
    \/ \E k \in 1..(Min(Len(a), Len(b)) + 1) :
          /\ \A i \in 1..(k - 1) : a[i] = b[i]
          /\ \/ k <= Len(a) /\ k <= Len(b) /\ a[k] < b[k]
             \/ k = Len(a) + 1 /\ k <= Len(b)

VersionTupleOf(v) == IF v = <<>> \/ v = <<"">> THEN <<0, 0, 0>>
                     ELSE [i \in 1..Len(v) |-> IntOf(v[i])]

\* The seven conditions of eligibility, for machine em with tags tags at instant t
\* when rows are the delivery records
EligibleFor(pk, em, tags, t, rows) ==
    LET dq == distributed_queries[pk]
    IN  /\ dq.valid_from <= t
        /\ \A u \in dq.valid_until : u >= t
        /\ dq.platforms # {} => \E x \in dq.platforms : x \in platforms_from_mask(em.platform_mask)
        /\ dq.serial_numbers # {} => em.serial_number \in dq.serial_numbers
        /\ dq.tags # {} => \E x \in dq.tags : x \in tags
        /\ TupleLE(VersionTupleOf(dq.minimum_osquery_version),
                   VersionTupleOf(em.osquery_version))
        /\ \A r \in rows : ~(r.distributed_query = pk /\ r.serial_number = em.serial_number)
        /\ dq.shard = 100 \/ shard(em.serial_number, pk) <= dq.shard

MachineOf(s) == CHOOSE m \in enrolled_machines : m.serial_number = s

ReturnedBy(p) == {q.dq : q \in poll[p].queries}
EligibleAtSelect(p) ==
    {pk \in QueryIds :
        EligibleFor(pk, MachineOf(poll[p].serial_number), MachineTags(poll[p].serial_number),
                    poll[p].sel_now, poll[p].sel_dqms)}
Answered(p) == poll[p].pc = "done" /\ poll[p].status = 200

\* C1: a distributed_read never returns to a serial number a query whose delivery
\* record already exists for that serial number when the answer is produced (so a
\* second poll returns none of the queries a first poll delivered).
C1_AtMostOnceDelivery ==
    [][\A p \in Pollers :
          (poll[p].pc = "selected" /\ poll'[p].pc = "done" /\ poll'[p].status = 200)
          => \A q \in poll'[p].queries :
                ~\E r \in dqms : /\ r.distributed_query = q.dq
                                 /\ r.serial_number = poll'[p].serial_number]_vars

\* A poll of a machine that already holds deliveries is answered with a new query
C1_Witness ==
    \E p \in Pollers :
        /\ Answered(p)
        /\ poll[p].queries # {}
        /\ \E r \in poll[p].sel_dqms : r.serial_number = poll[p].serial_number

\* C2: whatever the interleaving of the select and create steps of concurrent polls
\* of a machine, no query is in two successful answers for one serial number, and
\* no two DistributedQueryMachine rows share (distributed query, serial number).
C2_ConcurrentPollsDeliverOnce ==
    /\ \A k \in DOMAIN returned_count : returned_count[k] <= 1
    /\ \A r1 \in dqms : \A r2 \in dqms :
          (r1.distributed_query = r2.distributed_query
           /\ r1.serial_number = r2.serial_number) => r1 = r2

\* One poll has answered while another one, which selected the same query for the
\* same serial number, has not yet created its delivery records
C2_Witness ==
    \E p \in Pollers : \E o \in Pollers \ {p} :
        /\ Answered(p)
        /\ poll[o].pc = "selected"
        /\ poll[o].serial_number = poll[p].serial_number
        /\ \E i \in 1..Len(poll[o].dqm_list) : poll[o].dqm_list[i] \in ReturnedBy(p)

\* C3: the queries one distributed_read returns are the first batch_size (10), in
\* ascending id, of the queries eligible when it selected: none is ineligible, and
\* no eligible query with a smaller id than a returned one is left out.
C3_ReturnsFirstEligible ==
    \A p \in Pollers :
        Answered(p) =>
            /\ ReturnedBy(p) \subseteq EligibleAtSelect(p)
            /\ Cardinality(ReturnedBy(p)) = Min(batch_size, Cardinality(EligibleAtSelect(p)))
            /\ \A r \in ReturnedBy(p) : \A e \in EligibleAtSelect(p) \ ReturnedBy(p) : r < e
            /\ Cardinality(poll[p].queries) = Cardinality(ReturnedBy(p))

\* An answer cut at the batch size: eleven queries were eligible
C3_Witness ==
    \E p \in Pollers :
        /\ Answered(p)
        /\ Cardinality(ReturnedBy(p)) = batch_size
        /\ Cardinality(EligibleAtSelect(p)) > batch_size

\* C12: every delivery id of a distributed_read answer names a
\* DistributedQueryMachine row that is stored when the answer is produced, pairs the
\* serial number of the requesting machine with the query whose SQL the answer gives
\* under that id, and has no status yet; the answer holds no other id.
C12_DeliveryIdsNameStoredRows ==
    [][\A p \in Pollers :
          (poll[p].pc = "selected" /\ poll'[p].pc = "done" /\ poll'[p].status = 200) =>
             /\ \A q \in poll'[p].queries :
                   \E r \in dqms' :
                      /\ r.pk = q.id
                      /\ r.serial_number = poll[p].serial_number
                      /\ q.sql = distributed_queries[r.distributed_query].sql
                      /\ r.distributed_query = q.dq
                      /\ r.status = {}
             /\ Cardinality(poll'[p].queries) = Len(poll[p].dqm_list)
             /\ \A q1, q2 \in poll'[p].queries : q1.id = q2.id => q1 = q2]_vars

\* An answer of several queries whose delivery ids differ from the ids of the queries
C12_Witness ==
    \E p \in Pollers :
        /\ Answered(p)
        /\ Cardinality(poll[p].queries) >= 2
        /\ \E q \in poll[p].queries : q.id # q.dq
        /\ \A q \in poll[p].queries : \E r \in dqms : r.pk = q.id /\ r.status = {}

\* The queries eligible at the selection of p that come before pk
EligibleBefore(p, pk) == {e \in EligibleAtSelect(p) : e < pk}

\* C13: a query is selected only if its minimum version tuple is <= the version tuple
\* of the machine, a missing version counting as (0,0,0).  A query of minimum version
\* 5.0.0 is never selected for a machine of version 4.9.9 or without version, and is
\* selected for a machine of version 5.0.0 or 5.1.0 when the batch has room for it.
C13_VersionGate ==
    \A p \in Pollers :
        (Answered(p) /\ VersionParses(MachineOf(poll[p].serial_number).osquery_version)) =>
            LET ver == MachineOf(poll[p].serial_number).osquery_version
            IN  /\ \A pk \in ReturnedBy(p) :
                      TupleLE(VersionTupleOf(distributed_queries[pk].minimum_osquery_version),
                              VersionTupleOf(ver))
                /\ \A pk \in QueryIds :
                      distributed_queries[pk].minimum_osquery_version = <<"5", "0", "0">> =>
                         /\ ver \in {NoVersion, <<"">>, <<"4", "9", "9">>} => pk \notin ReturnedBy(p)
                         /\ ( /\ ver \in {<<"5", "0", "0">>, <<"5", "1", "0">>}
                              /\ \A r \in poll[p].sel_dqms : r.distributed_query # pk
                              /\ Cardinality(EligibleBefore(p, pk)) < batch_size )
                            => pk \in ReturnedBy(p)

\* A machine of version 5.1.0 is answered a query of minimum version 5.0.0
C13_Witness ==
    \E p \in Pollers, pk \in QueryIds :
        /\ Answered(p)
        /\ MachineOf(poll[p].serial_number).osquery_version = <<"5", "1", "0">>
        /\ distributed_queries[pk].minimum_osquery_version = <<"5", "0", "0">>
        /\ pk \in ReturnedBy(p)

\* C14: a machine whose stored version is no dot-separated list of integers is
\* treated as version (0,0,0): its distributed_read succeeds, returns the queries
\* without minimum version and withholds those with one.
C14_UnparsableVersionIsZero ==
    \A p \in Pollers :
        ( /\ poll[p].pc = "done"
          /\ poll[p].serial_number # ""
          /\ ~VersionParses(MachineOf(poll[p].serial_number).osquery_version) ) =>
            /\ poll[p].status = 200
            /\ \A pk \in ReturnedBy(p) : ~Truthy(distributed_queries[pk].minimum_osquery_version)
            /\ poll[p].sel_dqms = {} => ReturnedBy(p) # {}

\* The three filters, as the claim words them: an empty filter passes, a filter that
\* is not empty passes on intersection or membership
PlatformFilterPasses(dq, em) ==
    dq.platforms # {} => \E x \in dq.platforms : x \in platforms_from_mask(em.platform_mask)
SerialFilterPasses(dq, em) ==
    dq.serial_numbers # {} => em.serial_number \in dq.serial_numbers
TagFilterPasses(dq, tags) ==
    dq.tags # {} => \E x \in dq.tags : x \in tags

\* The conditions of eligibility other than the three filters, at the selection of p
PassesTheRest(p, pk) ==
    LET dq == distributed_queries[pk]
        em == MachineOf(poll[p].serial_number)
    IN  /\ dq.valid_from <= poll[p].sel_now
        /\ \A u \in dq.valid_until : u >= poll[p].sel_now
        /\ TupleLE(VersionTupleOf(dq.minimum_osquery_version), VersionTupleOf(em.osquery_version))
        /\ dq.shard = 100 \/ shard(em.serial_number, pk) <= dq.shard
        /\ \A r \in poll[p].sel_dqms :
              ~(r.distributed_query = pk /\ r.serial_number = em.serial_number)

\* C15: the platform, serial number and tag filters are each "empty means match-all":
\* a returned query passes the three of them, and a query that passes the three of them
\* (an empty filter passing for every machine, one with platform mask 0 or without tags
\* included) is returned when it passes the other conditions and the batch has room.
C15_EmptyFilterMatchesAll ==
    \A p \in Pollers :
        Answered(p) =>
            LET em == MachineOf(poll[p].serial_number)
                tags == MachineTags(poll[p].serial_number)
            IN  \A pk \in QueryIds :
                   LET dq == distributed_queries[pk]
                       passes == /\ PlatformFilterPasses(dq, em)
                                 /\ SerialFilterPasses(dq, em)
                                 /\ TagFilterPasses(dq, tags)
                   IN  /\ pk \in ReturnedBy(p) => passes
                       /\ ( /\ passes
                            /\ PassesTheRest(p, pk)
                            /\ Cardinality(EligibleBefore(p, pk)) < batch_size )
                          => pk \in ReturnedBy(p)

\* The machine with platform mask 0 and no tags is answered queries whose filters are
\* empty, and is refused a query for its tag filter alone
C15_Witness ==
    \E p \in Pollers, pk \in QueryIds :
        /\ Answered(p)
        /\ poll[p].serial_number = "SN2"
        /\ platforms_from_mask(MachineOf("SN2").platform_mask) = {}
        /\ MachineTags("SN2") = {}
        /\ ReturnedBy(p) # {}
        /\ distributed_queries[pk].tags # {}
        /\ distributed_queries[pk].platforms = {}
        /\ distributed_queries[pk].serial_numbers = {}
        /\ PassesTheRest(p, pk)
        /\ Cardinality(EligibleBefore(p, pk)) < batch_size
        /\ pk \notin ReturnedBy(p)

\* The conditions of eligibility other than the shard, at the selection of p
PassesAllButShard(p, pk) ==
    LET dq == distributed_queries[pk]
        em == MachineOf(poll[p].serial_number)
    IN  /\ dq.valid_from <= poll[p].sel_now
        /\ \A u \in dq.valid_until : u >= poll[p].sel_now
        /\ PlatformFilterPasses(dq, em)
        /\ SerialFilterPasses(dq, em)
        /\ TagFilterPasses(dq, MachineTags(poll[p].serial_number))
        /\ TupleLE(VersionTupleOf(dq.minimum_osquery_version), VersionTupleOf(em.osquery_version))
        /\ \A r \in poll[p].sel_dqms :
              ~(r.distributed_query = pk /\ r.serial_number = em.serial_number)

\* The shard admits serial number s to query pk
Admitted(s, pk) ==
    distributed_queries[pk].shard = 100 \/ shard(s, pk) <= distributed_queries[pk].shard

\* C16: the shard decision depends on (serial number, query id, shard) alone.  A query
\* of shard 100 is admitted for every machine, a query of a smaller shard iff the hash
\* of (serial number, query id) is <= the shard; a machine that is rejected is never
\* delivered the query, whatever the number of polls, and no delivery record is made
\* for it.
C16_ShardDecisionNeverFlips ==
    /\ \A s \in SerialNumbers, pk \in QueryIds :
          ~Admitted(s, pk) =>
             /\ returned_count[<<s, pk>>] = 0
             /\ \A r \in dqms : ~(r.serial_number = s /\ r.distributed_query = pk)
    /\ \A p \in Pollers :
          Answered(p) =>
             \A pk \in QueryIds :
                /\ pk \in ReturnedBy(p) => Admitted(poll[p].serial_number, pk)
                /\ ( /\ Admitted(poll[p].serial_number, pk)
                     /\ PassesAllButShard(p, pk)
                     /\ Cardinality(EligibleBefore(p, pk)) < batch_size )
                   => pk \in ReturnedBy(p)

\* A second poll of a machine still leaves out the query of shard 50 that rejects it,
\* while the other machine has been delivered that query
C16_Witness ==
    \E p \in Pollers, pk \in QueryIds :
        /\ Answered(p)
        /\ poll[p].sel_dqms # {}
        /\ distributed_queries[pk].shard = 50
        /\ ~Admitted(poll[p].serial_number, pk)
        /\ PassesAllButShard(p, pk)
        /\ pk \notin ReturnedBy(p)
        /\ \E o \in SerialNumbers :
              /\ o # poll[p].serial_number
              /\ Admitted(o, pk)
              /\ returned_count[<<o, pk>>] = 1

---------------------------------------------------------------------------
(* Claims on distributed query results *)

\* The step is a distributed_write of an authenticated machine
WriteServed == write_out'.status \in {200, 500}

\* The delivery records the body of the step names by their id
NamedDeliveries ==
    {r \in dqms : \E id \in dqm_pk_set(write_out'.body) : id = StrOfPk(r.pk)}

\* The rows the step has inserted
InsertedResults == dq_results' \ dq_results

\* C17: every DistributedQueryResult row distributed_write inserts carries the serial
\* number of the delivery record under whose id the row was reported, and the
\* distributed query of that delivery record.
C17_ResultsTaggedWithDeliverySerial ==
    [][WriteServed =>
          \A x \in InsertedResults :
             \E r \in NamedDeliveries :
                /\ \E i \in 1..Len(ReportedRows(write_out'.body, r)) :
                      remove_null_character(ReportedRows(write_out'.body, r)[i]) = x.row
                /\ x.distributed_query = r.distributed_query
                /\ x.serial_number = r.serial_number]_vars

\* C18: distributed_write succeeds in part: the ids of the body that match no delivery
\* record are skipped, the request does not fail and no row is made for them, while
\* every delivery record the body names gets its status and its message and all the
\* rows reported under its id.
C18_UnknownIdsAreSkipped ==
    [][WriteServed =>
          /\ write_out'.status = 200
          /\ \A r \in NamedDeliveries :
                \E n \in dqms' :
                   /\ n.pk = r.pk
                   /\ n.status # {}
                   /\ write_out'.body[StrOfPk(r.pk)].status # {} =>
                         n.status = write_out'.body[StrOfPk(r.pk)].status
                   /\ n.error_message = write_out'.body[StrOfPk(r.pk)].message
                   /\ Cardinality({x \in InsertedResults :
                                      x.distributed_query = r.distributed_query})
                         >= Len(ReportedRows(write_out'.body, r))
          /\ dqms \ NamedDeliveries \subseteq dqms'
          /\ \A x \in InsertedResults :
                \E r \in NamedDeliveries : x.distributed_query = r.distributed_query]_vars

---------------------------------------------------------------------------
(* Claims on file carving *)

\* The distinct block indices stored for a session, and those request c sees
\* stored after its own write
StoredIndices(sid) == {b.block_id : b \in {x \in blocks : x.file_carving_session = sid}}
IndicesAfterWrite(c) == StoredIndices(SessionOf(c)) \cup carve[c].block_id
Complete(sid) == Cardinality(StoredIndices(sid)) = SessionRow(sid).block_count

\* C4: a carve_continue call reports session_finished = TRUE exactly when its write
\* brings the number of distinct stored block indices of the session to block_count,
\* and FALSE while fewer are stored, whatever the order of arrival of the blocks.
C4_FinishedOnTheCompletingCall ==
    \A c \in CarveRequests :
        carve[c].pc = "written" =>
            /\ BlockIdOf(c) \notin StoredIndices(SessionOf(c))
            /\ carve[c].session_finished =
                  (Cardinality(IndicesAfterWrite(c)) = SessionRow(SessionOf(c)).block_count)

\* Block 0 completes a session of two blocks: block 1 arrived first
C4_Witness ==
    \E c \in CarveRequests :
        /\ carve[c].pc = "written"
        /\ carve[c].session_finished
        /\ carve[c].block_id = {0}
        /\ SessionRow(SessionOf(c)).block_count = 2
        /\ StoredIndices(SessionOf(c)) = {1}

\* C5: a carve_continue that carries a block index already stored for its session
\* fails: it leaves the stored blocks as they are (the first block of the index is
\* kept), reports no completion and dispatches no archive build; and no step ever
\* removes or replaces a stored block.
C5_ResubmittedBlockIsNoOp ==
    [][/\ blocks \subseteq blocks'
       /\ \A c \in CarveRequests :
             (/\ carve[c].pc = "locked"
              /\ carve'[c].pc # "locked"
              /\ \E b \in carve'[c].block_id : b \in StoredIndices(SessionOf(c)))
             => /\ carve'[c].pc = "done"
                /\ carve'[c].status \in {400, 500}
                /\ ~carve'[c].session_finished
                /\ blocks' = blocks
                /\ dispatched' = dispatched
                /\ finished_reports' = finished_reports]_vars

\* A block of a complete, dispatched session was sent again and refused
C5_Witness ==
    \E c \in CarveRequests :
        /\ carve[c].pc = "done"
        /\ carve[c].error = "IntegrityError"
        /\ \E b \in carve[c].block_id : b \in StoredIndices(SessionOf(c))
        /\ Complete(SessionOf(c))
        /\ dispatched[SessionOf(c)] = 1

\* The number of rows of FileCarvingBlock of a session
StoredRows(sid) == Cardinality({x \in blocks : x.file_carving_session = sid})
DispatchesDue(sid) == IF StoredRows(sid) >= SessionRow(sid).block_count THEN 1 ELSE 0

\* C6: the archive build of a session is dispatched once when the stored blocks of
\* the session reach block_count, and not before or again; a dispatch happens only
\* in the commit of the request that stored the completing block, never in a
\* request that fails.
C6_DispatchedOnceOnCommit ==
    [][/\ \A sid \in SessionIds : dispatched[sid] = DispatchesDue(sid)
       /\ \A sid \in SessionIds : dispatched'[sid] = DispatchesDue(sid)'
       /\ \A sid \in SessionIds :
             dispatched'[sid] # dispatched[sid]
             => \E c \in CarveRequests :
                   /\ carve[c].pc = "written" /\ carve[c].session_finished
                   /\ carve[c].session = {sid}
                   /\ carve'[c].pc = "done" /\ carve'[c].status = 200
                   /\ StoredRows(sid)' = SessionRow(sid).block_count
                   /\ StoredRows(sid) < SessionRow(sid).block_count]_vars

\* A session whose build was dispatched, and a later request for it that failed
C6_Witness ==
    \E c \in CarveRequests :
        /\ carve[c].pc = "done"
        /\ carve[c].status = 500
        /\ carve[c].session \subseteq SessionIds
        /\ dispatched[SessionOf(c)] = 1

\* C7: concurrent carve_continue calls of a session are serialized by the row lock,
\* held from authenticate to the end of the request: no two requests are past
\* authenticate for one session, at most one call sees session_finished, and once
\* the blocks of a session are stored exactly one call has seen it and one archive
\* build is dispatched.
C7_SerializedCompletion ==
    /\ \A c \in CarveRequests : \A o \in CarveRequests \ {c} :
          (carve[c].pc \in {"locked", "written"} /\ carve[o].pc \in {"locked", "written"})
          => carve[c].session # carve[o].session
    /\ \A c \in CarveRequests :
          carve[c].pc \in {"locked", "written"} => session_lock[SessionOf(c)] = c
    /\ \A sid \in SessionIds :
          /\ finished_reports[sid] <= 1
          /\ StoredRows(sid) >= SessionRow(sid).block_count
             => finished_reports[sid] = 1 /\ dispatched[sid] = 1

\* A call has stored the completing block of a session of two blocks and not yet
\* committed, while another call for the same session waits for the lock
C7_Witness ==
    \E c \in CarveRequests : \E o \in CarveRequests \ {c} :
        /\ carve[c].pc = "written"
        /\ carve[c].session_finished
        /\ SessionRow(SessionOf(c)).block_count = 2
        /\ carve[o].pc = "waiting"
        /\ carve[o].session = carve[c].session

\* C8: a session is COMPLETE iff the number of distinct stored block indices equals
\* block_count, and a COMPLETE session stays COMPLETE whatever carve_continue follows.
C8_CompleteIsStable ==
    [][\A sid \in SessionIds : Complete(sid) => Complete(sid)']_vars

\* The sessions the step has created
NewSessions == sessions' \ sessions

\* request_id names a delivery record, or a pack query, that exists
Resolvable(request_id) ==
    \/ IsInteger(request_id) /\ \E r \in dqms : r.pk = IntOf(request_id[1])
    \/ /\ ~IsInteger(request_id)
       /\ Len(request_id) = 5
       /\ IsIntString(request_id[2]) /\ IsIntString(request_id[4])
       /\ \E pq \in PackQueries : pq.pack = IntOf(request_id[2]) /\ pq.query = IntOf(request_id[4])

\* C19: carve_start creates a session of exactly one origin: a request_id that parses
\* as an integer resolves to the distributed query of a delivery record only, any
\* other request_id to a pack query only; the session has one of distributed_query
\* and pack_query set, never both, never neither.  When the origin is not resolved
\* (request_id missing, malformed or unknown) the request fails and creates no session.
C19_OneOriginPerSession ==
    [][LET request_id == start_out'.request_id
       IN  /\ Cardinality(NewSessions) <= 1
           /\ NewSessions # {} <=> start_out'.status = 200
           /\ \A x \in NewSessions :
                 /\ start_out'.session_id = {x.id}
                 /\ Cardinality(x.distributed_query) + Cardinality(x.pack_query) = 1
                 /\ IsInteger(request_id) =>
                       /\ x.pack_query = {}
                       /\ \E r \in dqms : /\ r.pk = IntOf(request_id[1])
                                          /\ x.distributed_query = {r.distributed_query}
                 /\ ~IsInteger(request_id) =>
                       /\ x.distributed_query = {}
                       /\ \E pq \in PackQueries : x.pack_query = {pq.pk}
           /\ ~Resolvable(request_id) => NewSessions = {} /\ start_out'.status # 200]_vars

\* A session of a distributed query and a session of a pack query exist, and the last
\* carve_start, of an origin that does not resolve, has failed
C19_Witness ==
    /\ \E x \in sessions : x.distributed_query # {} /\ x.pack_query = {}
    /\ \E y \in sessions : y.pack_query # {} /\ y.distributed_query = {}
    /\ start_out.status = 404
    /\ ~Resolvable(start_out.request_id)

\* Request c carries a session_id that is the id of no session
UnknownSession(c) ==
    /\ carve[c].pc = "waiting"
    /\ carve[c].session # {}
    /\ SessionOf(c) \notin {x.id : x \in sessions}

\* C20: no block is accepted for a session that does not exist.  A carve_continue with
\* an unknown session_id is rejected with the not-found error "Unknown session_id",
\* which is none of the validation errors (status 400); it stores no block, dispatches
\* no archive build and leaves the blocks of every session as they are.
C20_UnknownSessionRejected ==
    [][\A c \in CarveRequests :
          (UnknownSession(c) /\ carve'[c] # carve[c]) =>
             /\ carve'[c].pc = "done"
             /\ carve'[c].status = 403
             /\ carve'[c].error = "Unknown session_id"
             /\ blocks' = blocks
             /\ dispatched' = dispatched
             /\ finished_reports' = finished_reports]_vars

---------------------------------------------------------------------------
(* Claims on log ingestion *)

\* The last log request was served and the decorations of its batch report a serial
\* number that is not the serial number of the authenticated machine
ConflictingBatch ==
    /\ log_out.status = 200
    /\ log_out.data # <<>>
    /\ \E m \in Authenticate(log_out.node_key) :
          SerialConflict(SortRecords(log_out.data), m)

\* C9: a log batch whose decorations report a serial number other than the one of the
\* authenticated machine is rejected as a whole: the answer is {node_invalid: true},
\* no inventory snapshot is committed, no result and no status log is forwarded.
C9_ConflictingBatchRejected ==
    ConflictingBatch =>
        /\ log_out.node_invalid
        /\ log_out.committed = {}
        /\ log_out.results = <<>>
        /\ log_out.status_logs = <<>>

---------------------------------------------------------------------------
(* Claims on enrollment *)

\* The EnrolledMachine rows of a serial number
RowsOf(s) == {m \in enrolled_machines : m.serial_number = s}

\* C10: when enroll has been called twice or more with one serial number, the node
\* keys it answered are pairwise different, exactly one EnrolledMachine row exists for
\* the serial number, and every node key but the last resolves to no row.
C10_ReEnrollmentReplacesNodeKey ==
    \A s \in SerialNumbers :
        LET keys == issued_keys[s]
        IN  Len(keys) >= 2 =>
              /\ \A i, j \in 1..Len(keys) : i # j => keys[i] # keys[j]
              /\ Cardinality(RowsOf(s)) = 1
              /\ \A i \in 1..(Len(keys) - 1) : Authenticate(keys[i]) = {}
              /\ Authenticate(keys[Len(keys)]) = RowsOf(s)

\* One serial number has enrolled twice, once with each enrollment, and the second
\* call has just been answered
C10_Witness ==
    \E s \in SerialNumbers :
        /\ Len(issued_keys[s]) = 2
        /\ enroll_response.status = 200
        /\ enroll_response.node_key = issued_keys[s][2]
        /\ enrollment_event = [serial_number |-> s, action |-> "re-enrollment"]

\* C11: after every successful enroll at most one EnrolledMachine row exists per
\* serial number, whatever the enrollments: the row of the latest enroll, holding the
\* node key just answered, survives alone for its serial number, and the rows of the
\* other serial numbers are left as they were.
C11_OneRowPerSerialNumber ==
    [][/\ \A s \in SerialNumbers : Cardinality(RowsOf(s)') <= 1
       /\ \A s \in SerialNumbers :
             issued_keys'[s] # issued_keys[s] =>
                /\ \E m \in enrolled_machines' :
                      /\ RowsOf(s)' = {m}
                      /\ m.node_key = enroll_response'.node_key
                      /\ m.node_key = issued_keys'[s][Len(issued_keys'[s])]
                /\ \A o \in SerialNumbers \ {s} : RowsOf(o)' = RowsOf(o)]_vars

\* A serial number has moved from one enrollment to the other while the other serial
\* number holds a row
C11_Witness ==
    \E s \in SerialNumbers, o \in SerialNumbers :
        /\ s # o
        /\ Len(issued_keys[s]) = 2
        /\ RowsOf(o) # {}
        /\ \E m \in RowsOf(s) : m.enrollment = "E2" /\ m.pk = 3

---------------------------------------------------------------------------
(* Claims on node authentication *)

\* The rows of the database a node request can write
StoredState == <<enrolled_machines, machine_tags, distributed_queries, dqms, dqm_pk_seq,
                 dq_results, sessions, blocks, dispatched>>

\* No row holds the node key (a missing key included)
NoRowHolds(node_key) == \A m \in enrolled_machines : m.node_key # node_key

\* C21: a distributed_read, distributed_write, log or carve_start request whose node
\* key is missing or held by no row is answered 400 or 403 and changes no stored row:
\* no delivery record, result row, carving session or version refresh results from
\* it, and nothing is committed to the inventory or forwarded.
C21_RejectedBeforeHandler ==
    [][/\ (write_out' # write_out /\ NoRowHolds(write_out'.node_key))
           => /\ write_out'.status = AuthStatus(write_out'.node_key)
              /\ UNCHANGED StoredState
       /\ (start_out' # start_out /\ NoRowHolds(start_out'.node_key))
           => /\ start_out'.status = AuthStatus(start_out'.node_key)
              /\ start_out'.session_id = {}
              /\ UNCHANGED StoredState
       /\ (log_out' # log_out /\ log_out'.status # 0 /\ NoRowHolds(log_out'.node_key))
           => /\ log_out'.status = AuthStatus(log_out'.node_key)
              /\ log_out'.committed = {}
              /\ ~log_out'.results_posted
              /\ ~log_out'.status_logs_posted
              /\ UNCHANGED StoredState
       /\ (poll' # poll /\ \E p \in Pollers : poll'[p].status \in {400, 403})
           => UNCHANGED StoredState]_vars

\* Every endpoint has rejected a request, one without key and one with an unknown
\* key, while the first machine's own requests were served
C21_Witness ==
    /\ write_out.status = 403 /\ write_out.node_key = 3
    /\ start_out.status = 400 /\ start_out.node_key = NoNodeKey
    /\ log_out.status = 403 /\ log_out.data # <<>>
    /\ poll["p1"].status = 400
    /\ dq_results # {}
    /\ sessions # {}

---------------------------------------------------------------------------
(* Claims on the enrollment notification *)

\* C22: the notification of an enroll call has the action "re-enrollment" whenever
\* a row for the enrolling serial number existed before the call, under the same or
\* another enrollment, and "enrollment" only when no such row existed.
C22_ActionTellsReenrollment ==
    [][node_key_seq' # node_key_seq
       => LET s == enrollment_event'.serial_number
              existed == \E m \in enrolled_machines : m.serial_number = s
          IN  enrollment_event'.action = IF existed THEN "re-enrollment" ELSE "enrollment"]_vars

---------------------------------------------------------------------------
(* Claims on log ingestion *)

\* The last log request was served for a batch that is not empty
LogServed == log_out.status = 200 /\ log_out.data # <<>>

\* The records of a batch that carry the reserved inventory query name
InventoryRecords(data) == {i \in 1..Len(data) : data[i].name = INVENTORY_QUERY_NAME}

\* The number of positions of a list that hold the record r
Occurrences(r, l) == Cardinality({i \in 1..Len(l) : l[i] = r})

\* C23: for log_type "result", no record with the reserved inventory query name is
\* forwarded as a query result, every other record of the batch is forwarded, at most
\* one inventory commit is made, with the snapshot of an inventory record whose
\* timestamp no other inventory record exceeds, and a batch without inventory record
\* commits nothing.
C23_ResultBatchSplit ==
    (LogServed /\ log_out.log_type = "result") =>
        LET data == log_out.data
            inv == InventoryRecords(data)
        IN  /\ log_out.results_posted
            /\ \A i \in 1..Len(log_out.results) :
                  log_out.results[i].name # INVENTORY_QUERY_NAME
            /\ \A i \in (1..Len(data)) \ inv :
                  Occurrences(data[i], log_out.results) = Occurrences(data[i], data)
            /\ Len(log_out.results) = Len(data) - Cardinality(inv)
            /\ Cardinality(log_out.committed) <= 1
            /\ inv = {} => log_out.committed = {}
            /\ inv # {} =>
                  \E i \in inv :
                     /\ \A j \in inv : SortKey(data[j]) <= SortKey(data[i])
                     /\ log_out.committed = data[i].snapshot

\* A served result batch with a query result and an older and a newer inventory record
C23_Witness ==
    /\ LogServed
    /\ log_out.log_type = "result"
    /\ Len(log_out.data) = 2
    /\ \E i, j \in InventoryRecords(log_out.data) :
          /\ SortKey(log_out.data[i]) > SortKey(log_out.data[j])
          /\ i < j
          /\ log_out.data[i].snapshot # log_out.data[j].snapshot
    /\ log_out.committed # {}

\* The stored osquery_version of the machine that holds a node key
StoredVersion(node_key) == {m.osquery_version : m \in Authenticate(node_key)}

\* C24: a served log request whose decorations (those of the last record in timestamp
\* order) carry a version and the serial number of the authenticated machine leaves
\* that version stored on the EnrolledMachine; when the decorations carry another
\* serial number, or no version, the stored version is the one from before the request.
C24_VersionRefresh ==
    [][(log_out' # log_out /\ log_out'.status = 200 /\ log_out'.data # <<>>)
       => LET key == log_out'.node_key
              d == LastDecorations(SortRecords(log_out'.data))
              serials == {m.serial_number : m \in Authenticate(key)}
              before == {m.osquery_version : m \in Authenticate(key)}
              after == {m.osquery_version : m \in {x \in enrolled_machines' : x.node_key = key}}
          IN  /\ (d.version # {} /\ d.serial_number # {} /\ d.serial_number = serials)
                    => after = d.version
              /\ (d.version = {} \/ (d.serial_number # {} /\ d.serial_number # serials))
                    => after = before
              /\ \A m \in enrolled_machines :
                    m.node_key # key => m \in enrolled_machines']_vars

\* The first machine reported a new version with its own serial number and has it
\* stored, and the second machine has been served a batch that reports the serial
\* number of the first
C24_Witness ==
    /\ StoredVersion(1) = {<<"5", "1", "0">>}
    /\ LogServed
    /\ log_out.node_key = 2
    /\ LastDecorations(SortRecords(log_out.data)).serial_number = {"SN1"}
    /\ LastDecorations(SortRecords(log_out.data)).version # {}
    /\ StoredVersion(2) = {NoVersion}

\* C27: a log request whose log_type is neither "result" nor "status" is served: the
\* answer is {}, nothing is committed to the inventory, no result and no status log
\* is forwarded.
C27_UnknownLogTypeIsNotFatal ==
    [][(log_out' # log_out /\ log_out'.node_key # 0 /\ ~NoRowHolds(log_out'.node_key)
        /\ log_out'.log_type \notin {"result", "status"})
       => /\ log_out'.status = 200
          /\ ~log_out'.node_invalid
          /\ log_out'.committed = {}
          /\ ~log_out'.results_posted
          /\ log_out'.results = <<>>
          /\ ~log_out'.status_logs_posted
          /\ log_out'.status_logs = <<>>]_vars

\* A batch with an inventory record and a query result was served under a log_type
\* that is neither "result" nor "status"
C27_Witness ==
    /\ LogServed
    /\ log_out.log_type = "snapshot"
    /\ InventoryRecords(log_out.data) # {}
    /\ InventoryRecords(log_out.data) # 1..Len(log_out.data)

\* The lists that hold the records of a list in another order
Reorderings(l) ==
    {[i \in 1..Len(l) |-> l[f[i]]] :
        f \in {g \in [1..Len(l) -> 1..Len(l)] : \A i, j \in 1..Len(l) : i # j => g[i] # g[j]}}

\* The records a list holds, as a set
Elements(l) == {l[i] : i \in 1..Len(l)}

\* C29: a log request handles its records in ascending order of unixTime, a record
\* without unixTime first, whatever order the agent supplied; the decorations are
\* those of the last record of that order, so the batch supplied in any other order
\* yields the same conflict decision, the same version refresh, the same inventory
\* commit and the same set of forwarded records.
C29_OrderIndependent ==
    [][(log_out' # log_out /\ log_out'.status = 200 /\ log_batch # <<>>)
       => /\ \A i, j \in 1..Len(log_batch) :
                i < j => SortKey(SortRecords(log_batch)[i]) <= SortKey(SortRecords(log_batch)[j])
          /\ \A em \in Authenticate(log_out'.node_key) :
                \A other \in Reorderings(log_batch) :
                   LET records == SortRecords(other)
                   IN  /\ SerialConflict(records, em) = log_out'.conflict_event
                       /\ RefreshedMachine(records, em) \in enrolled_machines'
                       /\ log_out'.log_type = "result" =>
                             /\ LastInventorySnapshot(records) = log_out'.committed
                             /\ Elements(ResultRecords(records)) = Elements(log_out'.results)
                       /\ log_out'.log_type = "status" =>
                             Elements(records) = Elements(log_out'.status_logs)]_vars

---------------------------------------------------------------------------
(* Claims on the statuses and the result rows of distributed_write *)

\* The delivery records the body of the last distributed_write names
ReferencedDeliveries == {r \in dqms : write_out.body[StrOfPk(r.pk)] # NoEntry}

\* C25: a distributed_write from an enrolled machine that names a known delivery
\* record succeeds, also when it supplies no status for it; every delivery record the
\* last write names has a status that is not null: the status of that write, whatever
\* was stored before, and the sentinel 999 when that write supplied none.
C25_MissingStatusIsSentinel ==
    (~NoRowHolds(write_out.node_key) /\ ReferencedDeliveries # {}) =>
        /\ write_out.status = 200
        /\ \A r \in ReferencedDeliveries :
              LET supplied == write_out.body[StrOfPk(r.pk)].status
              IN  /\ r.status # {}
                  /\ r.status = IF supplied = {} THEN {999} ELSE supplied

\* C26: the insertion loop of distributed_write comes to its end for any number of
\* reported rows (fewer than a batch, a full batch, several batches, a last partial
\* batch), and at its end the number of DistributedQueryResult rows inserted is the
\* number of rows reported for known delivery ids.
C26_EveryRowInserted ==
    (write_loop.pc = "looping") ~>
        (/\ write_loop.pc = "done"
         /\ Cardinality(dq_results) =
               write_loop.counts["1"] + write_loop.counts["2"])

\* A loop has ended after two full batches and a partial one, for a body that also
\* reported a row for an unknown delivery id
C26_Witness ==
    /\ write_loop.pc = "done"
    /\ write_loop.batches = 3
    /\ write_loop.consumed = 2 * write_batch_size + 1
    /\ write_loop.counts["9"] = 1
    /\ Cardinality(dq_results) = write_loop.consumed

---------------------------------------------------------------------------
(* Claims on the progress and the independence of carving sessions *)

\* C28: when the agent goes on to send every block index below block_count of a
\* session, in any order and with indices sent again, the session becomes COMPLETE
\* and its archive build is dispatched.
C28_CarvingCompletes ==
    \A sid \in SessionIds : <>(Complete(sid) /\ dispatched[sid] >= 1)

\* The two blocks of the first session are stored, the second one first, and the
\* archive build is dispatched
C28_Witness ==
    /\ SessionRow("s1").block_count = 2
    /\ Complete("s1")
    /\ dispatched["s1"] = 1
    /\ \E c \in CarveRequests :
          carve[c].pc = "done" /\ carve[c].status = 200 /\ carve[c].session = {"s1"}
             /\ carve[c].block_id = {0}

\* The stored blocks of a session
BlocksOf(sid) == {b \in blocks : b.file_carving_session = sid}

\* C30: a step of a carve_continue request for one session leaves the stored blocks,
\* the completion reports, the dispatched archive builds and the row lock of every
\* other session as they are, and a request that waits for a session whose row no
\* request has locked can go on whatever locks are held on other sessions.
C30_SessionsAreIndependent ==
    /\ [][\A c \in CarveRequests :
            (carve'[c] # carve[c] /\ carve'[c].session # {}
             /\ carve'[c].session \subseteq SessionIds)
            => \A sid \in SessionIds \ carve'[c].session :
                  /\ {b \in blocks' : b.file_carving_session = sid} = BlocksOf(sid)
                  /\ dispatched'[sid] = dispatched[sid]
                  /\ finished_reports'[sid] = finished_reports[sid]
                  /\ session_lock'[sid] = session_lock[sid]]_vars
    /\ [](\A c \in CarveRequests : \A o \in CarveRequests \ {c} :
            (/\ carve[c].pc \in {"locked", "written"}
             /\ carve[o].pc = "waiting"
             /\ carve[o].session # {}
             /\ carve[o].session \subseteq SessionIds
             /\ carve[o].session # carve[c].session)
            => ENABLED CarveAuthenticate(o))

\* Both sessions are locked at once, each by its own request, and one of the two
\* requests has stored a block
C30_Witness ==
    /\ carve["c1"].pc = "written"
    /\ carve["c2"].pc = "locked"
    /\ carve["c1"].session # carve["c2"].session
    /\ session_lock[SessionOf("c1")] = "c1"
    /\ session_lock[SessionOf("c2")] = "c2"
    /\ BlocksOf(SessionOf("c2")) # {}

---------------------------------------------------------------------------
(* Claims on the block indices of a session, the owner of a delivery record and the
   delivery records of a failed poll *)

\* C31: no block with an index outside 0..block_count-1 is ever stored for a session,
\* a session never holds more blocks than block_count, and when a carve_continue
\* reports session_finished the indices stored for its session, its own included,
\* are exactly 0..block_count-1.
C31_StoredIndicesAreTheRange ==
    /\ \A sid \in SessionIds :
          /\ StoredIndices(sid) \subseteq 0..(SessionRow(sid).block_count - 1)
          /\ StoredRows(sid) <= SessionRow(sid).block_count
    /\ \A c \in CarveRequests :
          (carve[c].pc = "written" /\ carve[c].session_finished)
          => IndicesAfterWrite(c) = 0..(SessionRow(SessionOf(c)).block_count - 1)

\* C32: a distributed_write served for a machine changes the status and the error
\* message of delivery records of that machine's serial number only, and the result
\* rows it adds are the rows reported for those records: a delivery record of
\* another machine that the body names is left as it is.
C32_WritesOwnDeliveriesOnly ==
    [][(write_out' # write_out /\ write_out'.status = 200)
       => \A em \in Authenticate(write_out'.node_key) :
             LET own == {r \in dqms : r.serial_number = em.serial_number}
                 named == {r \in own : \E id \in dqm_pk_set(write_out'.body) :
                                          IdParses(id) /\ IdToPk(id) = r.pk}
             IN  /\ \A r \in dqms \ own : r \in dqms'
                 /\ \A x \in dq_results' \ dq_results :
                       \E r \in named :
                          \E i \in 1..Len(ReportedRows(write_out'.body, r)) :
                             /\ x.distributed_query = r.distributed_query
                             /\ x.row = remove_null_character(ReportedRows(write_out'.body, r)[i])
                 /\ named = {} => dq_results' = dq_results]_vars

\* C33: a distributed_read that fails stores none of the delivery records of its
\* batch; every DistributedQueryMachine row that exists was created by a poll that
\* returned its query to the agent, and every id an answered poll has returned is
\* the id of a stored row.
C33_FailedPollStoresNothing ==
    /\ [][\A p \in Pollers :
            (poll[p].pc # "done" /\ poll'[p].pc = "done" /\ poll'[p].status # 200)
            => dqms' = dqms]_vars
    /\ [](/\ \A r \in dqms : returned_count[<<r.serial_number, r.distributed_query>>] >= 1
          /\ \A p \in Pollers :
                Answered(p) => \A q \in poll[p].queries :
                   \E r \in dqms : /\ r.pk = q.id
                                    /\ r.distributed_query = q.dq
                                    /\ r.serial_number = poll[p].serial_number)

\* A poll has failed on a delivery record a concurrent poll created and answered,
\* while a query is still delivered to no one
C33_Witness ==
    \E p \in Pollers : \E o \in Pollers \ {p} :
        /\ poll[p].pc = "done"
        /\ poll[p].status = 500
        /\ Answered(o)
        /\ poll[o].queries # {}
        /\ \E q \in QueryIds :
              /\ returned_count[<<"SN1", q>>] = 0
              /\ ~\E r \in dqms : r.distributed_query = q

====
